---- MODULE Spec2Model ----
(***************************************************************************)
(* promptdungeon: the event channel (core.py), the command layer           *)
(* (commands.py), the dungeon simulation (game_engine.py), the turn-to-    *)
(* event translator (story.py) and the game's event subscriber            *)
(* (enhanced_visual_game.py), as one state machine.                        *)
(*                                                                         *)
(* Python calls are synchronous, so a call chain is one operator from a    *)
(* world record (every field of the program's objects) to the world after  *)
(* the call; an action applies one such chain to the variables.            *)
(* An exception in flight is the world's field "raised".                   *)
(***************************************************************************)
EXTENDS Integers, Sequences, FiniteSets, TLC

VARIABLES
    subs,             \* EventBus._subs: the handlers, in registration order
    published,        \* log: the calls of EventBus.publish, in call order
    delivered,        \* log: the handler invocations, in invocation order
    raised,           \* an exception left the last operation
    messages,         \* MessageLog.messages of the game's renderer
    game_turn_count,  \* EnhancedVisualGame.turn_count
    debug_info,       \* EnhancedVisualGame.debug_info
    pstats,           \* EnhancedVisualGame.player (EnhancedPlayer)
    turn_count,       \* GameState.turn_count
    width,            \* VisualDungeon.width
    height,           \* VisualDungeon.height
    grid,             \* VisualDungeon.grid, grid[y][x]
    entities,         \* VisualDungeon.entities
    items,            \* VisualDungeon.items
    player,           \* VisualDungeon.player: the id of the player entity
    rng,              \* the random module: the draws to come and how many were taken
    ret,              \* what the last call of move_entity returned
    story_system,     \* EnhancedVisualGame.story_system is not None
    moves,            \* log: the calls of move_entity the last operation made
    fallen,           \* log: the defenders _combat removed, as it left them
    last,             \* log: the last operation and what it was given
    memory,           \* GameEngine.memory
    history,          \* GameEngine.history
    calls,            \* log: the calls of provider.complete, in call order
    engine_turn,      \* what the last call of GameEngine._call returned
    config,           \* GameEngine.config: the player's name and role
    running,          \* EnhancedVisualGame.running
    last_key,         \* EnhancedVisualGame._last_key and _last_key_ts
    pc                \* which step of its scenario a specification is at

vars == <<subs, published, delivered, raised, messages, game_turn_count,
          debug_info, pstats, turn_count, width, height, grid, entities,
          items, player, rng, ret, story_system, moves, fallen, last,
          memory, history, calls, engine_turn, config, running,
          last_key, pc>>

World ==
    [subs |-> subs, published |-> published, delivered |-> delivered,
     raised |-> raised, messages |-> messages,
     game_turn_count |-> game_turn_count, debug_info |-> debug_info,
     pstats |-> pstats, turn_count |-> turn_count, width |-> width,
     height |-> height, grid |-> grid, entities |-> entities,
     items |-> items, player |-> player, rng |-> rng,
     ret |-> ret, story_system |-> story_system, moves |-> moves,
     fallen |-> fallen, last |-> last, memory |-> memory,
     history |-> history, calls |-> calls, engine_turn |-> engine_turn,
     config |-> config, running |-> running, last_key |-> last_key]

Commit(w) ==
    /\ subs' = w.subs
    /\ published' = w.published
    /\ delivered' = w.delivered
    /\ raised' = w.raised
    /\ messages' = w.messages
    /\ game_turn_count' = w.game_turn_count
    /\ debug_info' = w.debug_info
    /\ pstats' = w.pstats
    /\ turn_count' = w.turn_count
    /\ width' = w.width
    /\ height' = w.height
    /\ grid' = w.grid
    /\ entities' = w.entities
    /\ items' = w.items
    /\ player' = w.player
    /\ rng' = w.rng
    /\ ret' = w.ret
    /\ story_system' = w.story_system
    /\ moves' = w.moves
    /\ fallen' = w.fallen
    /\ last' = w.last
    /\ memory' = w.memory
    /\ history' = w.history
    /\ calls' = w.calls
    /\ engine_turn' = w.engine_turn
    /\ config' = w.config
    /\ running' = w.running
    /\ last_key' = w.last_key

Start(w) ==
    /\ subs = w.subs
    /\ published = w.published
    /\ delivered = w.delivered
    /\ raised = w.raised
    /\ messages = w.messages
    /\ game_turn_count = w.game_turn_count
    /\ debug_info = w.debug_info
    /\ pstats = w.pstats
    /\ turn_count = w.turn_count
    /\ width = w.width
    /\ height = w.height
    /\ grid = w.grid
    /\ entities = w.entities
    /\ items = w.items
    /\ player = w.player
    /\ rng = w.rng
    /\ ret = w.ret
    /\ story_system = w.story_system
    /\ moves = w.moves
    /\ fallen = w.fallen
    /\ last = w.last
    /\ memory = w.memory
    /\ history = w.history
    /\ calls = w.calls
    /\ engine_turn = w.engine_turn
    /\ config = w.config
    /\ running = w.running
    /\ last_key = w.last_key

(***************************************************************************)
(* Python values.  None is the empty tuple and a present value v is <<v>>, *)
(* so that an absent stat and the stat 0 differ.                           *)
(***************************************************************************)
None == <<>>
Some(v) == <<v>>
IsNone(o) == o = <<>>
TheVal(o) == o[1]

Min(a, b) == IF a < b THEN a ELSE b
Max(a, b) == IF a > b THEN a ELSE b
Abs(a) == IF a < 0 THEN 0 - a ELSE a

\* seq[:], the slice without its bound
TakeAll(seq, n) == seq

\* seq[:n]
Take(seq, n) == SubSeq(seq, 1, Min(n, Len(seq)))

\* seq[-n:]
LastN(seq, n) == SubSeq(seq, Max(1, Len(seq) - n + 1), Len(seq))

(***************************************************************************)
(* core.py: the events                                                     *)
(***************************************************************************)
MessageEvent(text, color) ==
    [type |-> "Message", text |-> text, color |-> color, priority |-> "normal"]

SpawnItemEvent(name) == [type |-> "SpawnItem", name |-> name]

SpawnEnemyEvent(name) == [type |-> "SpawnEnemy", name |-> name]

LayoutChangedEvent(layout) == [type |-> "LayoutChanged", layout |-> layout]

NewRoomEvent == [type |-> "NewRoom"]

PlayerUpdatedEvent(health, mana, experience, gold, inventory) ==
    [type |-> "PlayerUpdated", health |-> health, mana |-> mana,
     experience |-> experience, gold |-> gold, inventory |-> inventory]

TurnAdvancedEvent(delta) == [type |-> "TurnAdvanced", delta |-> delta]

TurnDebugEvent(payload) == [type |-> "TurnDebug", payload |-> payload]

(***************************************************************************)
(* random: a draw takes the next number of the tape (cyclically) and       *)
(* reduces it to the range asked for.  Which tape the run has is an input. *)
(***************************************************************************)
Draw(w) == w.rng.tape[(w.rng.pos % Len(w.rng.tape)) + 1]

Advance(w) == [w EXCEPT !.rng.pos = (@ + 1) % Len(w.rng.tape)]

\* the world after k draws
Skip(w, k) == [w EXCEPT !.rng.pos = (@ + k) % Len(w.rng.tape)]

\* random.randint(lo, hi): the value drawn in world w
RandInt(w, lo, hi) == lo + (Draw(w) % (hi - lo + 1))

\* random.choice(seq): the index drawn in world w
RandIndex(w, n) == (Draw(w) % n) + 1

(***************************************************************************)
(* ui_engine.py: MessageLog.add_message keeps the last max_messages texts  *)
(***************************************************************************)
MaxMessages == 10

AddMessage(w, text) ==
    LET m == Append(w.messages, text)
    IN  [w EXCEPT !.messages = IF Len(m) > MaxMessages THEN Tail(m) ELSE m]

(***************************************************************************)
(* game_engine.py: the dungeon simulation                                  *)
(***************************************************************************)
EMPTY == "EMPTY"
WALL == "WALL"
FLOOR == "FLOOR"
DOOR == "DOOR"
STAIRS_DOWN == "STAIRS_DOWN"
STAIRS_UP == "STAIRS_UP"

Direction == {"UP", "DOWN", "LEFT", "RIGHT"}

\* Direction.value is (dy, dx)
DY(d) == CASE d = "UP" -> -1 [] d = "DOWN" -> 1 [] OTHER -> 0
DX(d) == CASE d = "LEFT" -> -1 [] d = "RIGHT" -> 1 [] OTHER -> 0

\* An entity is an object: id stands for its identity, the rest are its fields.
Entity(id, x, y, symbol, color, name, health, max_health) ==
    [id |-> id, x |-> x, y |-> y, symbol |-> symbol, color |-> color,
     name |-> name, health |-> health, max_health |-> max_health,
     is_alive |-> TRUE]

Item(x, y, symbol, name, description, value) ==
    [x |-> x, y |-> y, symbol |-> symbol, name |-> name,
     description |-> description, value |-> value]

\* Entity is a dataclass: == compares the fields, not the identity
EntEq(a, b) ==
    /\ a.x = b.x
    /\ a.y = b.y
    /\ a.symbol = b.symbol
    /\ a.color = b.color
    /\ a.name = b.name
    /\ a.health = b.health
    /\ a.max_health = b.max_health
    /\ a.is_alive = b.is_alive

IndexOfId(ents, id) == CHOOSE i \in 1..Len(ents) : ents[i].id = id

EntityById(w, id) == w.entities[IndexOfId(w.entities, id)]

MinOf(S) == CHOOSE m \in S : \A n \in S : m <= n

RemoveAt(seq, i) == SubSeq(seq, 1, i - 1) \o SubSeq(seq, i + 1, Len(seq))

\* list.remove(x): the first element equal to x goes
RemoveEntity(ents, e) ==
    LET hits == {i \in 1..Len(ents) : EntEq(ents[i], e)}
    IN  IF hits = {} THEN ents ELSE RemoveAt(ents, MinOf(hits))

\* e == self.player; player 0 is None, which equals no entity
IsPlayer(w, e) == w.player # 0 /\ EntEq(e, EntityById(w, w.player))

NewId(w) ==
    1 + Max(w.player,
            IF w.entities = <<>> THEN 0
            ELSE CHOOSE m \in {w.entities[i].id : i \in 1..Len(w.entities)} :
                     \A j \in 1..Len(w.entities) : w.entities[j].id <= m)

InBounds(w, x, y) == 0 <= x /\ x < w.width /\ 0 <= y /\ y < w.height

DamageMin == 10
DamageMax == 25

\* defender.is_alive = False, for the defender at index i
Marked(w, i) == [w EXCEPT !.entities[i].is_alive = FALSE]

\* self.entities.remove(defender), for the defender at index i
Removed(w, i) ==
    [w EXCEPT !.entities = RemoveEntity(@, w.entities[i]),
              !.fallen = Append(@, w.entities[i])]

\* _combat once the damage is subtracted: the defender at index i is marked
\* and removed when its health is spent
Fall(w, i) ==
    IF w.entities[i].health <= 0 THEN Removed(Marked(w, i), i) ELSE w

\* _combat that leaves a spent defender in the list
CombatKeepsSpent(w, attacker, defender) ==
    [Advance(w) EXCEPT
        !.entities[IndexOfId(w.entities, defender)].health =
            @ - RandInt(w, DamageMin, DamageMax)]

\* VisualDungeon._combat
Combat(w, attacker, defender) ==
    Fall([Advance(w) EXCEPT
             !.entities[IndexOfId(w.entities, defender)].health =
                 @ - RandInt(w, DamageMin, DamageMax)],
         IndexOfId(w.entities, defender))

\* _check_item_pickup that takes nothing
CheckItemPickupSkipped(w, x, y) == w

\* VisualDungeon._check_item_pickup
CheckItemPickup(w, x, y) ==
    LET hits == {i \in 1..Len(w.items) : w.items[i].x = x /\ w.items[i].y = y}
    IN  IF hits = {} THEN w
        ELSE [w EXCEPT !.items = RemoveAt(@, MinOf(hits))]

\* a wall check that stops nothing
IsWallNever(w, x, y) == FALSE

\* cell = self.grid[new_y][new_x]; cell == CellType.WALL
IsWall(w, x, y) == w.grid[y][x] = WALL

\* VisualDungeon.move_entity; the boolean it returns is the world's ret
MoveEntityBody(w, id, direction) ==
    LET entity == EntityById(w, id)
        new_x == entity.x + DX(direction)
        new_y == entity.y + DY(direction)
        others == {i \in 1..Len(w.entities) :
                      /\ ~EntEq(w.entities[i], entity)
                      /\ w.entities[i].x = new_x
                      /\ w.entities[i].y = new_y}
    IN  IF ~InBounds(w, new_x, new_y) THEN [w EXCEPT !.ret = FALSE]
        ELSE IF IsWall(w, new_x, new_y) THEN [w EXCEPT !.ret = FALSE]
        ELSE IF others # {}
        THEN LET other == w.entities[MinOf(others)]
             IN  IF IsPlayer(w, entity) /\ ~IsPlayer(w, other)
                 THEN [Combat(w, id, other.id) EXCEPT !.ret = FALSE]
                 ELSE [w EXCEPT !.ret = FALSE]
        ELSE LET i == IndexOfId(w.entities, id)
                 w1 == [w EXCEPT !.entities[i].x = new_x,
                                 !.entities[i].y = new_y]
                 w2 == IF IsPlayer(w1, w1.entities[i])
                       THEN CheckItemPickup(w1, new_x, new_y)
                       ELSE w1
             IN  [w2 EXCEPT !.ret = TRUE]

\* a call of move_entity, and its record in the log: the mover, the direction,
\* the entities and items before and after, and what the call returned
MoveEntity(w, id, direction) ==
    LET w1 == MoveEntityBody(w, id, direction)
    IN  [w1 EXCEPT !.moves =
            Append(@, [id |-> id, direction |-> direction,
                       before |-> w.entities, items_before |-> w.items,
                       after |-> w1.entities, items_after |-> w1.items,
                       ret |-> w1.ret])]

\* generate_dungeon: the rooms, as (x, y, width, height)
Rooms ==
    << <<5, 3, 15, 8>>, <<25, 2, 12, 6>>, <<45, 4, 10, 10>>,
       <<8, 12, 20, 6>>, <<35, 14, 18, 5>> >>

\* generate_dungeon: the corridors, as the arguments of _create_corridor
Corridors ==
    << <<12, 6, 25, 5>>, <<37, 5, 45, 8>>, <<15, 11, 18, 12>>,
       <<28, 12, 35, 16>> >>

\* generate_dungeon: the hand-picked cells, as (x, y, kind), in the order set
FixedCells == << <<20, 6, DOOR>>, <<40, 8, DOOR>>, <<50, 5, STAIRS_DOWN>> >>

ItemCatalog ==
    << <<"Sword", "A sharp blade", 100>>,
       <<"Potion", "Restores health", 50>>,
       <<"Gold", "Shiny coins", 25>>,
       <<"Shield", "Protective gear", 75>>,
       <<"Scroll", "Ancient magic", 150>> >>

EnemyNames == <<"Goblin", "Orc", "Skeleton", "Rat", "Spider">>

ItemAttempts == 8
EnemyAttempts == 5
EnemyHealthMin == 30
EnemyHealthMax == 80

\* the carving loop: range(room_y, min(room_y + room_h, height)) and the same in x
InRoom(w, r, x, y) ==
    /\ r[1] <= x /\ x < Min(r[1] + r[3], w.width)
    /\ r[2] <= y /\ y < Min(r[2] + r[4], w.height)

\* a corridor whose runs go from the first endpoint up to the second only
InCorridorUnswapped(w, c, x, y) ==
    \/ /\ y = c[2] /\ c[1] <= x /\ x <= c[3]
       /\ 0 <= c[2] /\ c[2] < w.height /\ 0 <= x /\ x < w.width
    \/ /\ x = c[3] /\ c[2] <= y /\ y <= c[4]
       /\ 0 <= y /\ y < w.height /\ 0 <= c[3] /\ c[3] < w.width

\* VisualDungeon._create_corridor: the cells it turns into floor
InCorridor(w, c, x, y) ==
    LET x1 == c[1]
        y1 == c[2]
        x2 == c[3]
        y2 == c[4]
        start_x == IF x1 < x2 THEN x1 ELSE x2
        end_x == IF x1 < x2 THEN x2 ELSE x1
        start_y == IF y1 < y2 THEN y1 ELSE y2
        end_y == IF y1 < y2 THEN y2 ELSE y1
    IN  \/ /\ y = y1 /\ start_x <= x /\ x <= end_x
           /\ 0 <= y1 /\ y1 < w.height /\ 0 <= x /\ x < w.width
        \/ /\ x = x2 /\ start_y <= y /\ y <= end_y
           /\ 0 <= y /\ y < w.height /\ 0 <= x2 /\ x2 < w.width

\* generate_dungeon up to the corridors: walls, then rooms and corridors as floor
CarvedGrid(w) ==
    [y \in 0..(w.height - 1) |->
        [x \in 0..(w.width - 1) |->
            IF \/ \E i \in 1..Len(Rooms) : InRoom(w, Rooms[i], x, y)
               \/ \E i \in 1..Len(Corridors) : InCorridor(w, Corridors[i], x, y)
            THEN FLOOR ELSE WALL]]

\* self.grid[y][x] = kind for the hand-picked cells from the k-th on;
\* a cell outside the lists is an IndexError
RECURSIVE PlaceFixed(_, _)
PlaceFixed(w, k) ==
    IF k > Len(FixedCells) THEN w
    ELSE LET c == FixedCells[k]
         IN  IF ~InBounds(w, c[1], c[2]) THEN [w EXCEPT !.raised = TRUE]
             ELSE PlaceFixed([w EXCEPT !.grid[c[2]][c[1]] = c[3]], k + 1)

\* an item loop that places an item wherever the attempt lands
RECURSIVE PlaceItemsAnywhere(_, _)
PlaceItemsAnywhere(w, n) ==
    IF n = 0 \/ w.raised THEN w
    ELSE LET room == Rooms[RandIndex(w, Len(Rooms))]
             item_x == RandInt(Skip(w, 1), room[1] + 1, room[1] + room[3] - 2)
             item_y == RandInt(Skip(w, 2), room[2] + 1, room[2] + room[4] - 2)
             it == ItemCatalog[RandIndex(Skip(w, 3), Len(ItemCatalog))]
         IN  IF ~InBounds(w, item_x, item_y)
             THEN [Skip(w, 3) EXCEPT !.raised = TRUE]
             ELSE PlaceItemsAnywhere(
                      [Skip(w, 4) EXCEPT !.items =
                          Append(@, Item(item_x, item_y, "?", it[1], it[2], it[3]))],
                      n - 1)

\* one pass of the item loop and the passes after it; the pass draws the
\* room, x and y, and on a floor cell the catalog entry
RECURSIVE PlaceItems(_, _)
PlaceItems(w, n) ==
    IF n = 0 \/ w.raised THEN w
    ELSE LET room == Rooms[RandIndex(w, Len(Rooms))]
             item_x == RandInt(Skip(w, 1), room[1] + 1, room[1] + room[3] - 2)
             item_y == RandInt(Skip(w, 2), room[2] + 1, room[2] + room[4] - 2)
             it == ItemCatalog[RandIndex(Skip(w, 3), Len(ItemCatalog))]
         IN  IF ~InBounds(w, item_x, item_y)
             THEN [Skip(w, 3) EXCEPT !.raised = TRUE]
             ELSE IF w.grid[item_y][item_x] = FLOOR
             THEN PlaceItems(
                      [Skip(w, 4) EXCEPT !.items =
                          Append(@, Item(item_x, item_y, "?", it[1], it[2], it[3]))],
                      n - 1)
             ELSE PlaceItems(Skip(w, 3), n - 1)

\* one pass of the enemy loop and the passes after it; the pass draws the
\* room, x and y, and on a floor cell the name, health and max_health
RECURSIVE PlaceEnemies(_, _)
PlaceEnemies(w, n) ==
    IF n = 0 \/ w.raised THEN w
    ELSE LET room == Rooms[RandIndex(w, Len(Rooms))]
             enemy_x == RandInt(Skip(w, 1), room[1] + 1, room[1] + room[3] - 2)
             enemy_y == RandInt(Skip(w, 2), room[2] + 1, room[2] + room[4] - 2)
             enemy_name == EnemyNames[RandIndex(Skip(w, 3), Len(EnemyNames))]
             health == RandInt(Skip(w, 4), EnemyHealthMin, EnemyHealthMax)
             max_health == RandInt(Skip(w, 5), EnemyHealthMin, EnemyHealthMax)
         IN  IF ~InBounds(w, enemy_x, enemy_y)
             THEN [Skip(w, 3) EXCEPT !.raised = TRUE]
             ELSE IF w.grid[enemy_y][enemy_x] = FLOOR
             THEN PlaceEnemies(
                      [Skip(w, 6) EXCEPT !.entities =
                          Append(@, Entity(NewId(w), enemy_x, enemy_y, "E",
                                           "red", enemy_name, health,
                                           max_health))],
                      n - 1)
             ELSE PlaceEnemies(Skip(w, 3), n - 1)

\* VisualDungeon.generate_dungeon; an IndexError ends it where it is raised
GenerateDungeon(w) ==
    PlaceEnemies(
        PlaceItems(PlaceFixed([w EXCEPT !.grid = CarvedGrid(w)], 1), ItemAttempts),
        EnemyAttempts)

(***************************************************************************)
(* enhanced_visual_game.py: what the game does with an event               *)
(***************************************************************************)
FloorInRow(w, y) == {x \in 0..(w.width - 1) : w.grid[y][x] = FLOOR}

RECURSIVE FloorCountFrom(_, _)
FloorCountFrom(w, y) ==
    IF y >= w.height THEN 0
    ELSE Cardinality(FloorInRow(w, y)) + FloorCountFrom(w, y + 1)

\* coords[n - 1] of _find_random_floor's list, which is in row-major order
RECURSIVE NthFloorFrom(_, _, _)
NthFloorFrom(w, y, n) ==
    LET row == FloorInRow(w, y)
    IN  IF n <= Cardinality(row)
        THEN <<CHOOSE x \in row : Cardinality({z \in row : z < x}) = n - 1, y>>
        ELSE NthFloorFrom(w, y + 1, n - Cardinality(row))

FallbackX == 10
FallbackY == 5

\* a _find_random_floor that answers with a cell past the right edge
FindRandomFloorBeyond(w) == <<w.width, FallbackY>>

\* EnhancedVisualGame._find_random_floor: the (x, y) it returns in world w
FindRandomFloor(w) ==
    LET count == FloorCountFrom(w, 0)
    IN  IF count = 0 THEN <<FallbackX, FallbackY>>
        ELSE NthFloorFrom(w, 0, RandIndex(w, count))

\* _find_random_floor draws only when there is a floor cell
AfterFindRandomFloor(w) == IF FloorCountFrom(w, 0) = 0 THEN w ELSE Advance(w)

MaxSpawnItems == 10
MaxSpawnEnemies == 8
SpawnMaxHealth == 80

\* EnhancedVisualGame._spawn_items
RECURSIVE SpawnItems(_, _)
SpawnItems(w, names) ==
    LET ns == Take(names, MaxSpawnItems)
    IN  IF ns = <<>> THEN w
        ELSE LET xy == FindRandomFloor(w)
                 w1 == AfterFindRandomFloor(w)
                 w2 == [w1 EXCEPT !.items =
                           Append(@, Item(xy[1], xy[2], "?", Head(ns),
                                          "An item: " \o Head(ns), 0))]
             IN  SpawnItems(w2, Tail(ns))

\* EnhancedVisualGame._spawn_enemies
RECURSIVE SpawnEnemies(_, _)
SpawnEnemies(w, names) ==
    LET ns == Take(names, MaxSpawnEnemies)
    IN  IF ns = <<>> THEN w
        ELSE LET xy == FindRandomFloor(w)
                 w1 == AfterFindRandomFloor(w)
                 health == RandInt(w1, EnemyHealthMin, EnemyHealthMax)
                 w2 == Advance(w1)
                 w3 == [w2 EXCEPT !.entities =
                           Append(@, Entity(NewId(w2), xy[1], xy[2], "E", "red",
                                            Head(ns), health, SpawnMaxHealth))]
             IN  SpawnEnemies(w3, Tail(ns))

\* a reading of layout characters that knows no "#"
CellOfCharNoHash(ch) ==
    CASE ch = "█" -> WALL
      [] ch = "." -> FLOOR
      [] ch = "+" -> DOOR
      [] ch = ">" -> STAIRS_DOWN
      [] ch = "<" -> STAIRS_UP
      [] OTHER -> FLOOR

\* _apply_layout: the cell kind a layout character stands for
CellOfChar(ch) ==
    CASE ch = "█" -> WALL
      [] ch = "." -> FLOOR
      [] ch = "+" -> DOOR
      [] ch = ">" -> STAIRS_DOWN
      [] ch = "<" -> STAIRS_UP
      [] ch = "#" -> WALL
      [] OTHER -> FLOOR

\* EnhancedVisualGame._apply_layout; a row is the sequence of its characters
ApplyLayout(w, layout) ==
    LET h == Min(Len(layout), w.height)
    IN  [w EXCEPT !.grid =
            [y \in 0..(w.height - 1) |->
                [x \in 0..(w.width - 1) |->
                    IF y < h /\ x < Min(Len(layout[y + 1]), w.width)
                    THEN CellOfChar(layout[y + 1][x + 1])
                    ELSE w.grid[y][x]]]]

StartX == 10
StartY == 5

\* _generate_new_room after generate_dungeon: the player goes to the start
\* cell, the items go, the message is logged
EnterNewRoom(w) ==
    IF w.raised THEN w
    ELSE AddMessage(
             [w EXCEPT
                 !.entities = [i \in DOMAIN @ |->
                                  IF w.player # 0 /\ @[i].id = w.player
                                  THEN [@[i] EXCEPT !.x = StartX, !.y = StartY]
                                  ELSE @[i]],
                 !.pstats.x = IF w.player # 0 THEN StartX ELSE @,
                 !.pstats.y = IF w.player # 0 THEN StartY ELSE @,
                 !.items = <<>>],
             "You step into a new chamber...")

\* EnhancedVisualGame._generate_new_room
GenerateNewRoom(w) == EnterNewRoom(GenerateDungeon(w))

\* for it in event.inventory: if isinstance(it, str): inventory.append(it)
RECURSIVE AppendStrs(_, _)
AppendStrs(inv, vals) ==
    IF vals = <<>> THEN inv
    ELSE AppendStrs(IF Head(vals).t = "str" THEN Append(inv, Head(vals).v) ELSE inv,
                    Tail(vals))

\* EnhancedVisualGame._on_event
OnEvent(w, event) ==
    CASE event.type = "Message" -> AddMessage(w, event.text)
      [] event.type = "SpawnItem" -> SpawnItems(w, <<event.name>>)
      [] event.type = "SpawnEnemy" -> SpawnEnemies(w, <<event.name>>)
      [] event.type = "LayoutChanged" -> ApplyLayout(w, event.layout)
      [] event.type = "NewRoom" -> GenerateNewRoom(w)
      [] event.type = "PlayerUpdated" ->
            [w EXCEPT
                !.pstats.health =
                    IF IsNone(event.health) THEN @ ELSE TheVal(event.health),
                !.pstats.mana =
                    IF IsNone(event.mana) THEN @ ELSE TheVal(event.mana),
                !.pstats.experience =
                    IF IsNone(event.experience) THEN @ ELSE TheVal(event.experience),
                !.pstats.gold =
                    IF IsNone(event.gold) THEN @ ELSE TheVal(event.gold),
                !.pstats.inventory =
                    IF IsNone(event.inventory) THEN @
                    ELSE AppendStrs(@, TheVal(event.inventory))]
      [] event.type = "TurnAdvanced" ->
            [w EXCEPT !.game_turn_count = @ + event.delta]
      [] event.type = "TurnDebug" -> [w EXCEPT !.debug_info = Some(event.payload)]
      [] OTHER -> w

(***************************************************************************)
(* core.py: EventBus.  A handler is the game's _on_event or one of three   *)
(* test handlers: an observer, which returns; a subscriber, which calls    *)
(* bus.subscribe(observer) while it handles an event; a raiser, which      *)
(* raises.  "at" is the number of publish calls made before the handler    *)
(* was registered.                                                         *)
(***************************************************************************)
MaxSubs == 4

Handler(kind, at) == [kind |-> kind, at |-> at]

\* EventBus.subscribe
Subscribe(w, kind) ==
    [w EXCEPT !.subs = Append(@, Handler(kind, Len(w.published)))]

\* h(event) for the handler registered i-th
Invoke(w, i, event) ==
    LET h == w.subs[i]
        w1 == [w EXCEPT !.delivered =
                  Append(@, [h |-> i, n |-> Len(w.published)])]
    IN  CASE h.kind = "on_event" -> OnEvent(w1, event)
          [] h.kind = "subscriber" ->
                IF Len(w1.subs) < MaxSubs THEN Subscribe(w1, "observer") ELSE w1
          [] h.kind = "raiser" -> [w1 EXCEPT !.raised = TRUE]
          [] OTHER -> w1

\* for h in snapshot[i:]: h(event); an exception ends the loop
RECURSIVE Dispatch(_, _, _, _)
Dispatch(w, snapshot, i, event) ==
    IF i > Len(snapshot) \/ w.raised THEN w
    ELSE Dispatch(Invoke(w, i, event), snapshot, i + 1, event)

\* for h in self._subs: h(event), without the copy of the list
RECURSIVE DispatchLive(_, _, _)
DispatchLive(w, i, event) ==
    IF i > Len(w.subs) \/ w.raised THEN w
    ELSE DispatchLive(Invoke(w, i, event), i + 1, event)

\* what the log keeps of a call of publish: the event, how many handlers
\* were registered when it was called, whether it returned, and
\* GameState.turn_count when it was called
Call(event, nsubs, ok, turns) ==
    [event |-> event, nsubs |-> nsubs, ok |-> ok, turn_count |-> turns]

\* publish is called: the log gets the call
Called(w, event) ==
    [w EXCEPT !.published = Append(@, Call(event, Len(w.subs), FALSE, w.turn_count))]

\* the k-th call of publish ends: it returned unless an exception is in flight
Returned(w, k) == [w EXCEPT !.published[k].ok = ~w.raised]

PublishLive(w, event) ==
    Returned(DispatchLive(Called(w, event), 1, event), Len(w.published) + 1)

\* EventBus.publish
Publish(w, event) ==
    Returned(Dispatch(Called(w, event), w.subs, 1, event), Len(w.published) + 1)

\* a statement bus.publish(event) under "if cond", reached only when no
\* exception is in flight
PublishIf(w, cond, event) == IF w.raised \/ ~cond THEN w ELSE Publish(w, event)

(***************************************************************************)
(* JSON values of a provider reply, tagged by their Python type            *)
(***************************************************************************)
JNone == [t |-> "none"]
JInt(n) == [t |-> "int", n |-> n]
JStr(v) == [t |-> "str", v |-> v]
JBool(b) == [t |-> "bool", b |-> b]
JList(l) == [t |-> "list", l |-> l]
JDict(d) == [t |-> "dict", d |-> d]

\* {}
EmptyDict == [k \in {} |-> JNone]

\* bool(j)
Truthy(j) ==
    CASE j.t = "none" -> FALSE
      [] j.t = "int" -> j.n # 0
      [] j.t = "str" -> j.v # ""
      [] j.t = "bool" -> j.b
      [] j.t = "list" -> j.l # <<>>
      [] OTHER -> DOMAIN j.d # {}

\* d.get(key)
Get(d, key) == IF key \in DOMAIN d THEN d[key] ELSE JNone

\* a stat read with "or None": the stat 0 is taken for an absent one
OptIntOrNone(j) == IF j.t = "none" \/ j.n = 0 THEN None ELSE Some(j.n)

\* a stat of player_updates as the event's Optional[int]
OptInt(j) == IF j.t = "none" THEN None ELSE Some(j.n)

\* the inventory of player_updates as the event's Optional[List[str]]
OptList(j) == IF j.t = "none" THEN None ELSE Some(j.l)

\* sep.join(seq)
RECURSIVE Join(_, _)
Join(seq, sep) ==
    IF seq = <<>> THEN ""
    ELSE IF Len(seq) = 1 THEN Head(seq)
    ELSE Head(seq) \o sep \o Join(Tail(seq), sep)

(***************************************************************************)
(* story.py: StorySystem._turn_to_events                                   *)
(***************************************************************************)
MaxActionsShown == 5

\* for it in names: if isinstance(it, str): bus.publish(SpawnItemEvent(it))
RECURSIVE PublishSpawnItems(_, _)
PublishSpawnItems(w, names) ==
    IF names = <<>> \/ w.raised THEN w
    ELSE PublishSpawnItems(
             PublishIf(w, Head(names).t = "str", SpawnItemEvent(Head(names).v)),
             Tail(names))

\* for en in names: if isinstance(en, str): bus.publish(SpawnEnemyEvent(en))
RECURSIVE PublishSpawnEnemies(_, _)
PublishSpawnEnemies(w, names) ==
    IF names = <<>> \/ w.raised THEN w
    ELSE PublishSpawnEnemies(
             PublishIf(w, Head(names).t = "str", SpawnEnemyEvent(Head(names).v)),
             Tail(names))

\* ru.get(key) or [], the value being a list or falsy
ListOrEmpty(ru, key) == IF Truthy(Get(ru, key)) THEN Get(ru, key).l ELSE <<>>

\* (ru.get(key) or [])[:n] is a TypeError when the value is a number, True or
\* a dict.  (A text can be sliced; the inputs drawn here give a name list no
\* text value, and its characters are not modelled.)
Sliceable(ru, key) ==
    ~Truthy(Get(ru, key)) \/ Get(ru, key).t \in {"list", "str"}

\* isinstance(layout, list) and all(isinstance(r, str) for r in layout)
IsLayout(j) ==
    /\ j.t = "list"
    /\ \A i \in 1..Len(j.l) : j.l[i].t = "str"

\* the rows of a layout that is a list of strings
LayoutRows(j) == [i \in 1..Len(j.l) |-> j.l[i].v]

\* bool(ru.get("new_room", False))
NewRoomFlag(ru) == Truthy(Get(ru, "new_room"))

\* items = ru.get("items") or []; for it in items[:10]: ...
PublishItemsOf(w, ru) ==
    IF w.raised THEN w
    ELSE IF ~Sliceable(ru, "items") THEN [w EXCEPT !.raised = TRUE]
    ELSE PublishSpawnItems(w, Take(ListOrEmpty(ru, "items"), MaxSpawnItems))

\* enemies = ru.get("enemies") or []; for en in enemies[:8]: ...
PublishEnemiesOf(w, ru) ==
    IF w.raised THEN w
    ELSE IF ~Sliceable(ru, "enemies") THEN [w EXCEPT !.raised = TRUE]
    ELSE PublishSpawnEnemies(w, Take(ListOrEmpty(ru, "enemies"), MaxSpawnEnemies))

\* the room-updates block with the new-room statement ahead of the layout one
PublishRoomUpdatesNewRoomFirst(w, ru) ==
    IF ru.t # "dict" \/ w.raised THEN w
    ELSE PublishIf(
             PublishIf(
                 PublishEnemiesOf(PublishItemsOf(w, ru.d), ru.d),
                 NewRoomFlag(ru.d), NewRoomEvent),
             IsLayout(Get(ru.d, "layout")),
             LayoutChangedEvent(LayoutRows(Get(ru.d, "layout"))))

\* the room-updates block of _turn_to_events
PublishRoomUpdates(w, ru) ==
    IF ru.t # "dict" \/ w.raised THEN w
    ELSE PublishIf(
             PublishIf(
                 PublishEnemiesOf(PublishItemsOf(w, ru.d), ru.d),
                 IsLayout(Get(ru.d, "layout")),
                 LayoutChangedEvent(LayoutRows(Get(ru.d, "layout")))),
             NewRoomFlag(ru.d), NewRoomEvent)

DebugPayload(turn) ==
    [narration |-> turn.narration, actions |-> turn.actions,
     player_updates |-> turn.player_updates,
     room_updates |-> turn.room_updates, done |-> turn.done]

\* the PlayerUpdatedEvent of a player_updates dict
PlayerUpdatedOf(pu) ==
    PlayerUpdatedEvent(OptInt(Get(pu, "health")), OptInt(Get(pu, "mana")),
                       OptInt(Get(pu, "experience")), OptInt(Get(pu, "gold")),
                       OptList(Get(pu, "inventory")))

\* _turn_to_events with the turn-advanced statement ahead of the completion one
TurnToEventsEarlyAdvance(w, turn) ==
    LET w1 == PublishIf(w, TRUE, TurnDebugEvent(DebugPayload(turn)))
        w2 == PublishIf(w1, turn.narration # "",
                  MessageEvent(turn.narration, "white"))
        w3 == PublishIf(w2, turn.actions # <<>>,
                  MessageEvent("Actions: "
                                   \o Join(Take(turn.actions, MaxActionsShown), ", "),
                               "cyan"))
        w4 == PublishIf(w3, turn.player_updates.t = "dict",
                  PlayerUpdatedOf(IF turn.player_updates.t = "dict"
                                  THEN turn.player_updates.d ELSE EmptyDict))
        w5 == PublishRoomUpdates(w4, turn.room_updates)
        w6 == PublishIf(w5, TRUE, TurnAdvancedEvent(1))
    IN  PublishIf(w6, turn.done, MessageEvent("The story concludes.", "yellow"))

\* StorySystem._turn_to_events
TurnToEvents(w, turn) ==
    LET w1 == PublishIf(w, TRUE, TurnDebugEvent(DebugPayload(turn)))
        w2 == PublishIf(w1, turn.narration # "",
                  MessageEvent(turn.narration, "white"))
        w3 == PublishIf(w2, turn.actions # <<>>,
                  MessageEvent("Actions: "
                                   \o Join(Take(turn.actions, MaxActionsShown), ", "),
                               "cyan"))
        w4 == PublishIf(w3, turn.player_updates.t = "dict",
                  PlayerUpdatedOf(IF turn.player_updates.t = "dict"
                                  THEN turn.player_updates.d ELSE EmptyDict))
        w5 == PublishRoomUpdates(w4, turn.room_updates)
        w6 == PublishIf(w5, turn.done,
                  MessageEvent("The story concludes.", "yellow"))
    IN  PublishIf(w6, TRUE, TurnAdvancedEvent(1))

(***************************************************************************)
(* core.py: GameState; commands.py: the commands                           *)
(***************************************************************************)
\* GameState.advance_turn
AdvanceTurn(w, n) == [w EXCEPT !.turn_count = @ + n]

\* a statement state.advance_turn(n), reached only when no exception is in
\* flight
AdvanceTurnIf(w, n) == IF w.raised THEN w ELSE AdvanceTurn(w, n)

\* MoveCommand.execute that takes every move for a success
MoveCommandReportSuccess(w) ==
    Publish(AdvanceTurn(w, 1), TurnAdvancedEvent(1))

\* MoveCommand.execute after the call of move_entity
MoveCommandReport(w) ==
    IF w.ret
    THEN Publish(AdvanceTurn(w, 1), TurnAdvancedEvent(1))
    ELSE Publish(w, MessageEvent("Your way is blocked!", "yellow"))

\* MoveCommand.execute
MoveCommandExecute(w, direction) ==
    MoveCommandReport(MoveEntity(w, w.player, direction))

\* InspectCommand.execute
InspectCommandExecute(w) ==
    PublishIf(
        AdvanceTurnIf(
            Publish(w, MessageEvent(
                "You carefully examine your surroundings...", "cyan")),
            1),
        TRUE, TurnAdvancedEvent(1))

\* WaitCommand.execute that advances the turn after its two events
WaitCommandAdvanceLast(w) ==
    AdvanceTurnIf(
        PublishIf(
            Publish(w, MessageEvent("You wait and catch your breath.", "gray")),
            TRUE, TurnAdvancedEvent(1)),
        1)

\* WaitCommand.execute
WaitCommandExecute(w) ==
    PublishIf(
        AdvanceTurnIf(
            Publish(w, MessageEvent("You wait and catch your breath.", "gray")),
            1),
        TRUE, TurnAdvancedEvent(1))

\* VisualDungeon.update_enemies: the enemies from the k-th of the copy on
RECURSIVE UpdateEnemiesFrom(_, _, _)
UpdateEnemiesFrom(w, copy, k) ==
    IF k > Len(copy) THEN w
    ELSE LET alive == {i \in 1..Len(w.entities) : w.entities[i].id = copy[k].id}
             enemy == IF alive = {} THEN copy[k]
                      ELSE w.entities[CHOOSE i \in alive : TRUE]
         IN  IF IsPlayer(w, enemy) \/ ~enemy.is_alive
             THEN UpdateEnemiesFrom(w, copy, k + 1)
             ELSE LET moving == (Draw(w) % 10) < 3
                      w1 == Advance(w)
                      p == EntityById(w1, w1.player)
                      dx == p.x - enemy.x
                      dy == p.y - enemy.y
                      direction ==
                          IF Abs(dx) > Abs(dy)
                          THEN (IF dx > 0 THEN "RIGHT" ELSE "LEFT")
                          ELSE (IF dy > 0 THEN "DOWN" ELSE "UP")
                  IN  UpdateEnemiesFrom(
                          IF moving THEN MoveEntity(w1, enemy.id, direction) ELSE w1,
                          copy, k + 1)

\* VisualDungeon.update_enemies
UpdateEnemies(w) ==
    IF w.player = 0 THEN w ELSE UpdateEnemiesFrom(w, w.entities, 1)

(***************************************************************************)
(* story.py: StorySystem.start and step.  The engine's answer is an input: *)
(* a reply is the Turn the engine returned, or the failure of the call.    *)
(***************************************************************************)
Reply(ok, turn) == [ok |-> ok, turn |-> turn]

\* StorySystem.start
StoryStart(w, reply) ==
    IF ~reply.ok THEN [w EXCEPT !.raised = TRUE]
    ELSE TurnToEvents([w EXCEPT !.last = [op |-> "start", turn |-> reply.turn,
                                         first |-> Len(w.published) + 1]],
                      reply.turn)

\* StorySystem.step
StoryStep(w, action, reply) ==
    IF w.raised THEN w
    ELSE IF ~reply.ok THEN [w EXCEPT !.raised = TRUE]
    ELSE TurnToEvents([w EXCEPT !.last = [op |-> "step", turn |-> reply.turn,
                                         first |-> Len(w.published) + 1]],
                      reply.turn)

\* AIActionCommand.execute
AIActionCommandExecute(w, action, reply) ==
    StoryStep(Publish(w, MessageEvent("> " \o action, "bright_yellow")),
              action, reply)

\* except Exception as e: the failure of the command is logged
CaughtPrompt(w) ==
    IF w.raised THEN [AddMessage(w, "AI error: ") EXCEPT !.raised = FALSE] ELSE w

\* EnhancedVisualGame._open_prompt, action being the line that was typed
OpenPrompt(w, action, reply) ==
    IF ~w.story_system
    THEN AddMessage(w, "No AI provider configured. Set one in the launcher.")
    ELSE IF action = "" THEN w
    ELSE CaughtPrompt(AIActionCommandExecute(w, action, reply))

(***************************************************************************)
(* enhanced_visual_game.py: EnhancedPlayer and initialize_game             *)
(***************************************************************************)
\* ContentRegistry.class_health
ClassHealth(role) ==
    CASE role = "Warrior" -> 120 [] role = "Cleric" -> 100 [] role = "Ranger" -> 90
      [] role = "Mage" -> 70 [] role = "Rogue" -> 80 [] OTHER -> 100

\* ContentRegistry.class_mana
ClassMana(role) ==
    CASE role = "Mage" -> 80 [] role = "Cleric" -> 60 [] role = "Ranger" -> 40
      [] role = "Warrior" -> 30 [] role = "Rogue" -> 35 [] OTHER -> 50

\* EnhancedVisualGame._get_class_health
GetClassHealth(class_name) ==
    CASE class_name = "Warrior" -> 120 [] class_name = "Cleric" -> 100
      [] class_name = "Ranger" -> 90 [] class_name = "Mage" -> 70
      [] class_name = "Rogue" -> 80 [] OTHER -> 100

\* EnhancedVisualGame._get_class_mana
GetClassMana(class_name) ==
    CASE class_name = "Mage" -> 80 [] class_name = "Cleric" -> 60
      [] class_name = "Ranger" -> 40 [] class_name = "Warrior" -> 30
      [] class_name = "Rogue" -> 35 [] OTHER -> 50

EnhancedPlayer(name, role, x, y, health, mana) ==
    [name |-> name, role |-> role, x |-> x, y |-> y, health |-> health,
     max_health |-> health, mana |-> mana, max_mana |-> mana, experience |-> 0,
     level |-> 1, gold |-> 50, inventory |-> <<"Health Potion", "Rusty Sword">>]

\* str(seed), for the seeds 0 to 9
SeedText(seed) == <<"0", "1", "2", "3", "4", "5", "6", "7", "8", "9">>[seed + 1]

\* the random module seeded with seed: the tape of that seed
SeedTape(seed) == [i \in 1..7 |-> (seed * 7 + i * (3 + 2 * seed) + i * i) % 97]

\* a seeding that gives the generator its sequence and keeps its place in it
SeedRandomInPlace(w, seed) ==
    IF IsNone(seed) THEN w
    ELSE AddMessage([w EXCEPT !.rng.tape = SeedTape(TheVal(seed))],
                    "Seed set to " \o SeedText(TheVal(seed)))

\* "Seed randomness if provided"
SeedRandom(w, seed) ==
    IF IsNone(seed) THEN w
    ELSE AddMessage([w EXCEPT !.rng = [tape |-> SeedTape(TheVal(seed)), pos |-> 0]],
                    "Seed set to " \o SeedText(TheVal(seed)))

\* "Add player to entities": the entity of the game's player goes to the front
\* of the list and becomes dungeon.player
AddPlayerEntity(w, player_name, player_class) ==
    [w EXCEPT
        !.entities =
            <<Entity(NewId(w), w.pstats.x, w.pstats.y, "@", "bright_yellow",
                     player_name \o " the " \o player_class, w.pstats.health,
                     w.pstats.max_health)>> \o @,
        !.player = NewId(w)]

Welcome(w, player_name, player_class) ==
    AddMessage(
        AddMessage(w, "Welcome, " \o player_name \o " the " \o player_class \o "!"),
        "Use WASD to move, I to inspect, Tab for inventory")

\* "Create enhanced player", "Add player to entities", "Welcome message"
CreatePlayer(w, player_name, player_class, health, mana) ==
    Welcome(
        AddPlayerEntity(
            [w EXCEPT !.pstats = EnhancedPlayer(player_name, player_class,
                                                StartX, StartY, health, mana)],
            player_name, player_class),
        player_name, player_class)

\* except Exception as e: the failure of the opening turn is logged
CaughtStart(w) ==
    IF w.raised
    THEN [AddMessage(w, "AI init failed: ")
             EXCEPT !.story_system = FALSE, !.raised = FALSE]
    ELSE w

\* "Initialize LLM story system if available"
OpeningTurn(w, provider) ==
    IF IsNone(provider) THEN w
    ELSE CaughtStart(StoryStart([w EXCEPT !.story_system = TRUE], TheVal(provider)))

\* initialize_game after generate_dungeon
InitializeGenerated(w, player_name, player_class, provider) ==
    IF w.raised THEN w
    ELSE CreatePlayer(
             OpeningTurn(
                 CreatePlayer(
                     Subscribe([w EXCEPT !.turn_count = 0], "on_event"),
                     player_name, player_class,
                     ClassHealth(player_class), ClassMana(player_class)),
                 provider),
             player_name, player_class,
             GetClassHealth(player_class), GetClassMana(player_class))

\* EnhancedVisualGame.initialize_game.  seed is None or Some(a seed); provider
\* is None (no llm_provider) or Some(the reply to the opening request).
InitializeGame(w, player_name, player_class, seed, provider) ==
    InitializeGenerated(GenerateDungeon(SeedRandom(w, seed)),
                        player_name, player_class, provider)

(***************************************************************************)
(* The state after construction: EnhancedVisualGame.__init__ with a        *)
(* dungeon of the given size and the random module in the given state      *)
(***************************************************************************)
NewGame(wd, ht, tape) ==
    [subs |-> <<>>, published |-> <<>>, delivered |-> <<>>, raised |-> FALSE,
     messages |-> <<>>, game_turn_count |-> 0, debug_info |-> None,
     pstats |-> EnhancedPlayer("", "", 0, 0, 0, 0), turn_count |-> 0,
     width |-> wd, height |-> ht,
     grid |-> [y \in 0..(ht - 1) |-> [x \in 0..(wd - 1) |-> EMPTY]],
     entities |-> <<>>, items |-> <<>>, player |-> 0,
     rng |-> [tape |-> tape, pos |-> 0], ret |-> FALSE, story_system |-> FALSE,
     moves |-> <<>>, fallen |-> <<>>, last |-> [op |-> "none"],
     memory |-> <<>>, history |-> <<>>, calls |-> <<>>,
     engine_turn |-> None, config |-> [player_name |-> <<>>, role |-> <<>>],
     running |-> TRUE, last_key |-> [key |-> "", ts |-> 0]]

\* the world as an operation finds it: no exception in flight
Calm(w) == [w EXCEPT !.raised = FALSE]

(***************************************************************************)
(* Texts.  A Python str that the program takes apart is the sequence of    *)
(* its characters; Str gives the same str as a string.                     *)
(***************************************************************************)
Whitespace == {" ", "\n", "\t", "\r"}

Digits == {"0", "1", "2", "3", "4", "5", "6", "7", "8", "9"}

Letters ==
    {"a", "b", "c", "d", "e", "f", "g", "h", "i", "j", "k", "l", "m", "n", "o",
     "p", "q", "r", "s", "t", "u", "v", "w", "x", "y", "z", "A", "B", "C", "D",
     "E", "F", "G", "H", "I", "J", "K", "L", "M", "N", "O", "P", "Q", "R", "S",
     "T", "U", "V", "W", "X", "Y", "Z"}

\* the str of the given characters
RECURSIVE Str(_)
Str(text) == IF text = <<>> THEN "" ELSE Head(text) \o Str(Tail(text))

\* text[i], and "" past the end of the text
CharAt(text, i) == IF i \in 1..Len(text) THEN text[i] ELSE ""

\* text[i:]
From(text, i) == SubSeq(text, i, Len(text))

\* text.startswith(prefix)
StartsWith(text, prefix) ==
    Len(prefix) <= Len(text) /\ SubSeq(text, 1, Len(prefix)) = prefix

\* text.endswith(suffix)
EndsWith(text, suffix) ==
    /\ Len(suffix) <= Len(text)
    /\ SubSeq(text, Len(text) - Len(suffix) + 1, Len(text)) = suffix

\* the first index from i on whose character is not in the class
RECURSIVE SkipClass(_, _, _)
SkipClass(text, i, class) ==
    IF i <= Len(text) /\ text[i] \in class THEN SkipClass(text, i + 1, class) ELSE i

\* the last index down from i whose character is not whitespace
RECURSIVE BackOverSpace(_, _)
BackOverSpace(text, i) ==
    IF i >= 1 /\ text[i] \in Whitespace THEN BackOverSpace(text, i - 1) ELSE i

\* text.strip()
Strip(text) ==
    SubSeq(text, SkipClass(text, 1, Whitespace), BackOverSpace(text, Len(text)))

\* text.find(ch) and text.rfind(ch), counted from 1; 0 when ch is not there
Find(text, ch) ==
    IF \E i \in 1..Len(text) : text[i] = ch
    THEN CHOOSE i \in 1..Len(text) :
            text[i] = ch /\ \A j \in 1..(i - 1) : text[j] # ch
    ELSE 0

RFind(text, ch) ==
    IF \E i \in 1..Len(text) : text[i] = ch
    THEN CHOOSE i \in 1..Len(text) :
            text[i] = ch /\ \A j \in (i + 1)..Len(text) : text[j] # ch
    ELSE 0

\* text.replace(old, new)
RECURSIVE Replace(_, _, _)
Replace(text, old, new) ==
    IF text = <<>> THEN <<>>
    ELSE IF StartsWith(text, old)
         THEN new \o Replace(From(text, Len(old) + 1), old, new)
         ELSE <<Head(text)>> \o Replace(Tail(text), old, new)

(***************************************************************************)
(* json_utils.py: the fences, the braces and the repairs                   *)
(***************************************************************************)
\* the character `, which a string of this module cannot hold
Backtick == "backtick"

Fence == <<Backtick, Backtick, Backtick>>

\* re.sub(r"^```[a-zA-Z0-9_-]*\n", "", s): the opening fence and its tag go
\* when a newline ends them
DropFenceLine(s) ==
    LET e == SkipClass(s, Len(Fence) + 1, Letters \cup Digits \cup {"_", "-"})
    IN  IF StartsWith(s, Fence) /\ CharAt(s, e) = "\n" THEN From(s, e + 1) ELSE s

\* s[:-3] if s.endswith("```")
DropClosingFence(s) ==
    IF EndsWith(s, Fence) THEN SubSeq(s, 1, Len(s) - Len(Fence)) ELSE s

\* _strip_code_fences after text.strip()
StripFencesOf(s) ==
    IF StartsWith(s, Fence) /\ EndsWith(s, Fence)
    THEN Strip(DropClosingFence(DropFenceLine(s)))
    ELSE Strip(s)

\* _strip_code_fences
StripCodeFences(text) == StripFencesOf(Strip(text))

\* _extract_braced
ExtractBraced(text) ==
    IF Find(text, "{") # 0 /\ RFind(text, "}") # 0 /\ Find(text, "{") < RFind(text, "}")
    THEN SubSeq(text, Find(text, "{"), RFind(text, "}"))
    ELSE text

\* where a match of (\{|,|\s)([A-Za-z_][A-Za-z0-9_\-]*)\s*:\s that begins at
\* i ends, and 0 when none begins there; the name is text[i+1 .. NameEnd - 1]
NameEnd(text, i) == SkipClass(text, i + 2, Letters \cup Digits \cup {"_", "-"})

KeyMatchEnd(text, i) ==
    LET colon == SkipClass(text, NameEnd(text, i), Whitespace)
    IN  IF /\ CharAt(text, i) \in {"{", ","} \cup Whitespace
           /\ CharAt(text, i + 1) \in Letters \cup {"_"}
           /\ CharAt(text, colon) = ":"
           /\ CharAt(text, colon + 1) \in Whitespace
        THEN colon + 1
        ELSE 0

\* re.sub(r'(?m)(\{|,|\s)([A-Za-z_][A-Za-z0-9_\-]*)\s*:\s', r'\1"\2": ', s3)
\* from the i-th character on
RECURSIVE QuoteKeys(_, _)
QuoteKeys(text, i) ==
    IF i > Len(text) THEN <<>>
    ELSE IF KeyMatchEnd(text, i) # 0
         THEN <<text[i], "\"">> \o SubSeq(text, i + 1, NameEnd(text, i) - 1)
                  \o <<"\"", ":", " ">> \o QuoteKeys(text, KeyMatchEnd(text, i) + 1)
         ELSE <<text[i]>> \o QuoteKeys(text, i + 1)

\* re.sub(r",\s*(?=[}\]])", "", s) from the i-th character on
RECURSIVE DropTrailingCommas(_, _)
DropTrailingCommas(text, i) ==
    IF i > Len(text) THEN <<>>
    ELSE IF /\ text[i] = ","
            /\ CharAt(text, SkipClass(text, i + 1, Whitespace)) \in {"}", "]"}
         THEN DropTrailingCommas(text, SkipClass(text, i + 1, Whitespace))
         ELSE <<text[i]>> \o DropTrailingCommas(text, i + 1)

\* .replace("None", "null").replace("True", "true").replace("False", "false")
JsonLiterals(text) ==
    Replace(Replace(Replace(text, <<"N", "o", "n", "e">>, <<"n", "u", "l", "l">>),
                    <<"T", "r", "u", "e">>, <<"t", "r", "u", "e">>),
            <<"F", "a", "l", "s", "e">>, <<"f", "a", "l", "s", "e">>)

\* s3: the heuristic repair of s2
HeuristicRepair(s2) == DropTrailingCommas(JsonLiterals(QuoteKeys(s2, 1)), 1)

\* s4: the aggressive repair of s3
AggressiveRepair(s3) == DropTrailingCommas(Replace(s3, <<"'">>, <<"\"">>), 1)

(***************************************************************************)
(* json.loads and ast.literal_eval, as json_utils.py uses them: one        *)
(* parser of a text from its i-th character on, "py" telling Python's      *)
(* literals from JSON.  A parse gives the value and the index after it, or *)
(* fails.  Numbers are integers, a key is a quoted text, a quoted text     *)
(* opens with one quote and an escape is one of \" \\ \/ \' \n \t \r: the   *)
(* texts of the specifications below hold nothing else.                    *)
(***************************************************************************)
Failed == [ok |-> FALSE, v |-> JNone, pos |-> 0]

Parsed(v, pos) == [ok |-> TRUE, v |-> v, pos |-> pos]

SkipSpace(text, i) == SkipClass(text, i, Whitespace)

\* a parser that knows no escape
UnescapedNever(ch, py) == ""

\* the character an escape stands for, "" for none
Unescaped(ch, py) ==
    CASE ch = "\"" -> "\""
      [] ch = "\\" -> "\\"
      [] ch = "n" -> "\n"
      [] ch = "t" -> "\t"
      [] ch = "r" -> "\r"
      [] ch = "/" /\ ~py -> "/"
      [] ch = "'" /\ py -> "'"
      [] OTHER -> ""

\* a quoted text from its first character on, acc being what was read of it.
\* JSON takes no control character; Python takes no line end, and keeps the
\* backslash of an escape it does not know.
RECURSIVE ScanString(_, _, _, _, _)
ScanString(text, i, quote, py, acc) ==
    IF i > Len(text) THEN Failed
    ELSE IF text[i] = quote THEN Parsed(JStr(acc), i + 1)
    ELSE IF text[i] = "\\"
         THEN IF Unescaped(CharAt(text, i + 1), py) # ""
              THEN ScanString(text, i + 2, quote, py,
                              Append(acc, Unescaped(CharAt(text, i + 1), py)))
              ELSE IF py
                   THEN ScanString(text, i + 1, quote, py, Append(acc, "\\"))
                   ELSE Failed
    ELSE IF text[i] \in {"\n", "\r"} \/ (~py /\ text[i] = "\t") THEN Failed
    ELSE ScanString(text, i + 1, quote, py, Append(acc, text[i]))

\* the quoted text whose opening quote is at i; Python joins the quoted
\* texts that follow one another
RECURSIVE ParseText(_, _, _, _)
ParseText(text, i, py, acc) ==
    LET r == ScanString(text, i + 1, text[i], py, acc)
    IN  IF r.ok /\ py /\ CharAt(text, SkipSpace(text, r.pos)) \in {"'", "\""}
        THEN ParseText(text, SkipSpace(text, r.pos), py, r.v.v)
        ELSE r

DigitValue(ch) ==
    CHOOSE n \in 0..9 : <<"0", "1", "2", "3", "4", "5", "6", "7", "8", "9">>[n + 1] = ch

RECURSIVE DecimalValue(_)
DecimalValue(digits) ==
    IF digits = <<>> THEN 0
    ELSE 10 * DecimalValue(SubSeq(digits, 1, Len(digits) - 1))
             + DigitValue(digits[Len(digits)])

\* an integer whose digits begin at i; a 0 is not followed by a digit
ParseInt(text, i, sign) ==
    LET e == SkipClass(text, i, Digits)
    IN  IF text[i] = "0" /\ e > i + 1 THEN Failed
        ELSE Parsed(JInt(sign * DecimalValue(SubSeq(text, i, e - 1))), e)

\* d[key] = v
WithKey(d, key, v) == [k \in DOMAIN d \cup {key} |-> IF k = key THEN v ELSE d[k]]

WordAt(text, i, word) == SubSeq(text, i, Min(Len(text), i + Len(word) - 1)) = word

RECURSIVE ParseValue(_, _, _)
RECURSIVE ParseElements(_, _, _, _, _)
RECURSIVE ElementParsed(_, _, _, _)
RECURSIVE ParseMembers(_, _, _, _, _)
RECURSIVE KeyParsed(_, _, _, _)
RECURSIVE MemberParsed(_, _, _, _, _)

\* the value that begins at i
ParseValue(text, i, py) ==
    CASE CharAt(text, i) = "{" ->
            ParseMembers(text, SkipSpace(text, i + 1), py, EmptyDict, TRUE)
      [] CharAt(text, i) = "[" ->
            ParseElements(text, SkipSpace(text, i + 1), py, <<>>, TRUE)
      [] CharAt(text, i) = "\"" -> ParseText(text, i, py, <<>>)
      [] CharAt(text, i) = "'" /\ py -> ParseText(text, i, py, <<>>)
      [] CharAt(text, i) \in Digits -> ParseInt(text, i, 1)
      [] CharAt(text, i) = "-" /\ CharAt(text, i + 1) \in Digits ->
            ParseInt(text, i + 1, -1)
      [] ~py /\ WordAt(text, i, <<"n", "u", "l", "l">>) -> Parsed(JNone, i + 4)
      [] ~py /\ WordAt(text, i, <<"t", "r", "u", "e">>) -> Parsed(JBool(TRUE), i + 4)
      [] ~py /\ WordAt(text, i, <<"f", "a", "l", "s", "e">>) ->
            Parsed(JBool(FALSE), i + 5)
      [] py /\ WordAt(text, i, <<"N", "o", "n", "e">>) -> Parsed(JNone, i + 4)
      [] py /\ WordAt(text, i, <<"T", "r", "u", "e">>) -> Parsed(JBool(TRUE), i + 4)
      [] py /\ WordAt(text, i, <<"F", "a", "l", "s", "e">>) ->
            Parsed(JBool(FALSE), i + 5)
      [] OTHER -> Failed

\* the elements of a list from i on; Python takes a comma before the "]"
ParseElements(text, i, py, acc, first) ==
    IF CharAt(text, i) = "]" /\ (first \/ py) THEN Parsed(JList(acc), i + 1)
    ELSE ElementParsed(text, ParseValue(text, i, py), py, acc)

ElementParsed(text, r, py, acc) ==
    IF ~r.ok THEN Failed
    ELSE CASE CharAt(text, SkipSpace(text, r.pos)) = "," ->
                 ParseElements(text, SkipSpace(text, SkipSpace(text, r.pos) + 1),
                               py, Append(acc, r.v), FALSE)
           [] CharAt(text, SkipSpace(text, r.pos)) = "]" ->
                 Parsed(JList(Append(acc, r.v)), SkipSpace(text, r.pos) + 1)
           [] OTHER -> Failed

\* the members of an object from i on; Python takes a comma before the "}";
\* of two members with one key the later stays
ParseMembers(text, i, py, acc, first) ==
    IF CharAt(text, i) = "}" /\ (first \/ py) THEN Parsed(JDict(acc), i + 1)
    ELSE IF CharAt(text, i) = "\"" \/ (py /\ CharAt(text, i) = "'")
         THEN KeyParsed(text, ParseText(text, i, py, <<>>), py, acc)
         ELSE Failed

KeyParsed(text, k, py, acc) ==
    IF ~k.ok THEN Failed
    ELSE IF CharAt(text, SkipSpace(text, k.pos)) # ":" THEN Failed
    ELSE MemberParsed(text, k.v.v,
                      ParseValue(text, SkipSpace(text, SkipSpace(text, k.pos) + 1), py),
                      py, acc)

MemberParsed(text, key, r, py, acc) ==
    IF ~r.ok THEN Failed
    ELSE CASE CharAt(text, SkipSpace(text, r.pos)) = "," ->
                 ParseMembers(text, SkipSpace(text, SkipSpace(text, r.pos) + 1),
                              py, WithKey(acc, key, r.v), FALSE)
           [] CharAt(text, SkipSpace(text, r.pos)) = "}" ->
                 Parsed(JDict(WithKey(acc, key, r.v)), SkipSpace(text, r.pos) + 1)
           [] OTHER -> Failed

\* a parse succeeds when only whitespace follows the value
WholeText(text, r) ==
    IF r.ok /\ SkipSpace(text, r.pos) > Len(text) THEN r ELSE Failed

\* json.loads(text): the value, or the failure that is its exception
Loads(text) == WholeText(text, ParseValue(text, SkipSpace(text, 1), FALSE))

\* ast.literal_eval(text)
LiteralEval(text) ==
    WholeText(text, ParseValue(text, SkipClass(text, 1, {" ", "\t"}), TRUE))

(***************************************************************************)
(* json_utils.py: coerce_json.  What it gives is the value it returns and, *)
(* as a log, the rungs of the ladder it tried, in the order it tried them. *)
(***************************************************************************)
Coerced(value, rungs) == [value |-> value, rungs |-> rungs]

Narration == <<"n", "a", "r", "r", "a", "t", "i", "o", "n">>

\* {"narration": text}
NarrationOnly(text) == JDict(WithKey(EmptyDict, Narration, JStr(text)))

\* ast.literal_eval of the candidates from the k-th on, a dict being the
\* only result that is returned; then the fallback
RECURSIVE CoerceLiteral(_, _, _, _)
CoerceLiteral(s, candidates, k, rungs) ==
    IF k > Len(candidates)
    THEN Coerced(NarrationOnly(StripCodeFences(s)), Append(rungs, "narration"))
    ELSE IF LiteralEval(candidates[k]).ok /\ LiteralEval(candidates[k]).v.t = "dict"
         THEN Coerced(LiteralEval(candidates[k]).v,
                      Append(rungs, <<"literal s4", "literal s3", "literal s2">>[k]))
         ELSE CoerceLiteral(s, candidates, k + 1,
                            Append(rungs, <<"literal s4", "literal s3", "literal s2">>[k]))

\* the aggressive fallback whose literal evaluation begins with s2
CoerceAggressiveOriginalFirst(s, s2, s3, s4) ==
    IF Loads(s4).ok
    THEN Coerced(Loads(s4).v, <<"strict", "braced", "heuristic", "aggressive">>)
    ELSE CoerceLiteral(s, <<s2, s3, s4>>, 1,
                       <<"strict", "braced", "heuristic", "aggressive">>)

\* "Aggressive fallback: convert all single quotes to double quotes"
CoerceAggressive(s, s2, s3, s4) ==
    IF Loads(s4).ok
    THEN Coerced(Loads(s4).v, <<"strict", "braced", "heuristic", "aggressive">>)
    ELSE CoerceLiteral(s, <<s4, s3, s2>>, 1,
                       <<"strict", "braced", "heuristic", "aggressive">>)

\* "Heuristic: replace single quotes with double quotes for keys/strings"
CoerceHeuristic(s, s2, s3) ==
    IF Loads(s3).ok
    THEN Coerced(Loads(s3).v, <<"strict", "braced", "heuristic">>)
    ELSE CoerceAggressive(s, s2, s3, AggressiveRepair(s3))

\* "Remove code fences and extract brace block"
CoerceBraced(s, s2) ==
    IF Loads(s2).ok
    THEN Coerced(Loads(s2).v, <<"strict", "braced">>)
    ELSE CoerceHeuristic(s, s2, HeuristicRepair(s2))

\* "First, try strict JSON"
CoerceStrict(s) ==
    IF Loads(s).ok
    THEN Coerced(Loads(s).v, <<"strict">>)
    ELSE CoerceBraced(s, ExtractBraced(StripCodeFences(s)))

\* str(data) of a None or a bool
PyStr(data) ==
    CASE data.t = "none" -> <<"N", "o", "n", "e">>
      [] data.t = "bool" /\ data.b -> <<"T", "r", "u", "e">>
      [] OTHER -> <<"F", "a", "l", "s", "e">>

\* coerce_json(data), data being a dict, a str, a None or a bool
CoerceJson(data) ==
    CASE data.t = "dict" -> Coerced(data, <<"mapping">>)
      [] data.t = "str" -> CoerceStrict(Strip(data.v))
      [] OTHER -> Coerced(NarrationOnly(PyStr(data)), <<>>)

(***************************************************************************)
(* Written values.  A document is a value as a text writes it down: an     *)
(* object is the list of its members in the order they are written.        *)
(* json.dumps writes a document in the style JsonStyle; the other styles   *)
(* are those a provider may write a reply in.                              *)
(***************************************************************************)
DObj(members) == [t |-> "obj", m |-> members]

\* the last member of the given key
LastOf(members, key) ==
    members[CHOOSE i \in 1..Len(members) :
                /\ members[i][1] = key
                /\ \A j \in (i + 1)..Len(members) : members[j][1] # key][2]

\* the value a document writes down; of two members with one key an object
\* has the later
RECURSIVE ValueOf(_)
ValueOf(doc) ==
    CASE doc.t = "obj" ->
            JDict([key \in {doc.m[i][1] : i \in 1..Len(doc.m)} |->
                      ValueOf(LastOf(doc.m, key))])
      [] doc.t = "list" -> JList([i \in 1..Len(doc.l) |-> ValueOf(doc.l[i])])
      [] OTHER -> doc

Style(quote, comma, colon, open, close, trail, py) ==
    [quote |-> quote, comma |-> comma, colon |-> colon, open |-> open,
     close |-> close, trail |-> trail, py |-> py]

\* json.dumps(obj, ensure_ascii=False)
JsonStyle == Style("\"", <<",", " ">>, <<":", " ">>, <<>>, <<>>, FALSE, FALSE)

\* the characters of a text between quotes
RECURSIVE Escaped(_, _)
Escaped(text, quote) ==
    IF text = <<>> THEN <<>>
    ELSE (CASE Head(text) \in {quote, "\\"} -> <<"\\", Head(text)>>
            [] Head(text) = "\n" -> <<"\\", "n">>
            [] Head(text) = "\t" -> <<"\\", "t">>
            [] Head(text) = "\r" -> <<"\\", "r">>
            [] OTHER -> <<Head(text)>>)
         \o Escaped(Tail(text), quote)

\* Python writes a text that holds ' and no " between double quotes
QuoteOf(text, st) ==
    IF /\ st.py
       /\ \E i \in 1..Len(text) : text[i] = "'"
       /\ \A i \in 1..Len(text) : text[i] # "\""
    THEN "\""
    ELSE st.quote

WriteStr(text, st) ==
    <<QuoteOf(text, st)>> \o Escaped(text, QuoteOf(text, st)) \o <<QuoteOf(text, st)>>

\* str(n)
RECURSIVE IntText(_)
IntText(n) ==
    IF n < 0 THEN <<"-">> \o IntText(0 - n)
    ELSE IF n < 10 THEN <<<<"0", "1", "2", "3", "4", "5", "6", "7", "8", "9">>[n + 1]>>
    ELSE IntText(n \div 10) \o IntText(n % 10)

RECURSIVE Write(_, _)
RECURSIVE WriteItems(_, _)
RECURSIVE WriteMembers(_, _)

Write(doc, st) ==
    CASE doc.t = "none" ->
            IF st.py THEN <<"N", "o", "n", "e">> ELSE <<"n", "u", "l", "l">>
      [] doc.t = "bool" ->
            (CASE doc.b /\ st.py -> <<"T", "r", "u", "e">>
               [] doc.b /\ ~st.py -> <<"t", "r", "u", "e">>
               [] ~doc.b /\ st.py -> <<"F", "a", "l", "s", "e">>
               [] OTHER -> <<"f", "a", "l", "s", "e">>)
      [] doc.t = "int" -> IntText(doc.n)
      [] doc.t = "str" -> WriteStr(doc.v, st)
      [] doc.t = "list" -> <<"[">> \o WriteItems(doc.l, st) \o <<"]">>
      [] OTHER ->
            <<"{">> \o st.open \o WriteMembers(doc.m, st)
                \o (IF st.trail /\ doc.m # <<>> THEN <<",">> ELSE <<>>)
                \o st.close \o <<"}">>

WriteItems(l, st) ==
    IF l = <<>> THEN <<>>
    ELSE Write(Head(l), st)
             \o (IF Len(l) > 1 THEN st.comma \o WriteItems(Tail(l), st) ELSE <<>>)

WriteMembers(m, st) ==
    IF m = <<>> THEN <<>>
    ELSE WriteStr(Head(m)[1], st) \o st.colon \o Write(Head(m)[2], st)
             \o (IF Len(m) > 1 THEN st.comma \o WriteMembers(Tail(m), st) ELSE <<>>)

\* json.dumps(obj, ensure_ascii=False)
JsonDumps(doc) == Write(doc, JsonStyle)

(***************************************************************************)
(* engine.py: Turn and GameEngine.  The texts of a reply are sequences of  *)
(* characters, and so are the keys of the mappings made of it.  The        *)
(* provider's answer to a call is an input: a text, or the failure of the  *)
(* call.                                                                   *)
(***************************************************************************)
KeyActions == <<"a", "c", "t", "i", "o", "n", "s">>
KeyAvailableActions == <<"a", "v", "a", "i", "l", "a", "b", "l", "e", "_", "a", "c", "t", "i", "o", "n", "s">>
KeyMemory == <<"m", "e", "m", "o", "r", "y">>
KeyDone == <<"d", "o", "n", "e">>
KeyGameOver == <<"g", "a", "m", "e", "_", "o", "v", "e", "r">>
KeyItems == <<"i", "t", "e", "m", "s">>
KeyEnemies == <<"e", "n", "e", "m", "i", "e", "s">>
KeySpecialFeatures == <<"s", "p", "e", "c", "i", "a", "l", "_", "f", "e", "a", "t", "u", "r", "e", "s">>
KeyPlayer == <<"p", "l", "a", "y", "e", "r">>
KeyName == <<"n", "a", "m", "e">>
KeyRole == <<"r", "o", "l", "e">>
KeyAction == <<"a", "c", "t", "i", "o", "n">>
KeyPlayerUpdates == <<"p", "l", "a", "y", "e", "r", "_", "u", "p", "d", "a", "t", "e", "s">>
KeyRoomUpdates == <<"r", "o", "o", "m", "_", "u", "p", "d", "a", "t", "e", "s">>

\* the fields Turn declares
TurnFields ==
    {Narration, KeyActions, KeyMemory, KeyDone, KeyItems, KeyEnemies,
     KeySpecialFeatures}

\* str.lower of a character
Lower(ch) ==
    IF \E i \in 1..26 : <<"A", "B", "C", "D", "E", "F", "G", "H", "I", "J", "K",
                          "L", "M", "N", "O", "P", "Q", "R", "S", "T", "U", "V",
                          "W", "X", "Y", "Z">>[i] = ch
    THEN <<"a", "b", "c", "d", "e", "f", "g", "h", "i", "j", "k", "l", "m", "n",
           "o", "p", "q", "r", "s", "t", "u", "v", "w", "x", "y", "z">>[
             CHOOSE i \in 1..26 :
                 <<"A", "B", "C", "D", "E", "F", "G", "H", "I", "J", "K", "L",
                   "M", "N", "O", "P", "Q", "R", "S", "T", "U", "V", "W", "X",
                   "Y", "Z">>[i] = ch]
    ELSE ch

\* the texts pydantic reads as True and as False, in lower case
TrueTexts == {<<"1">>, <<"o", "n">>, <<"t">>, <<"t", "r", "u", "e">>, <<"y">>, <<"y", "e", "s">>}

FalseTexts == {<<"0">>, <<"o", "f", "f">>, <<"f">>, <<"f", "a", "l", "s", "e">>, <<"n">>, <<"n", "o">>}

\* a field of type str takes a str only
IsStrField(j) == j.t = "str"

\* a field of type List[str] takes a list of str only
IsStrListField(j) ==
    /\ j.t = "list"
    /\ \A i \in 1..Len(j.l) : j.l[i].t = "str"

\* a field of type bool takes a bool, 0 or 1, and the texts for True and False
IsBoolField(j) ==
    \/ j.t = "bool"
    \/ j.t = "int" /\ j.n \in {0, 1}
    \/ j.t = "str" /\ [i \in 1..Len(j.v) |-> Lower(j.v[i])] \in TrueTexts \cup FalseTexts

\* the bool such a field gets
BoolField(j) ==
    CASE j.t = "bool" -> j.b
      [] j.t = "int" -> j.n = 1
      [] OTHER -> [i \in 1..Len(j.v) |-> Lower(j.v[i])] \in TrueTexts

\* whether Turn.model_validate(data) succeeds: data is a mapping, narration
\* is there, and each declared field that is there has its type
ModelValid(data) ==
    /\ data.t = "dict"
    /\ Narration \in DOMAIN data.d
    /\ IsStrField(data.d[Narration])
    /\ KeyMemory \in DOMAIN data.d => IsStrField(data.d[KeyMemory])
    /\ KeyDone \in DOMAIN data.d => IsBoolField(data.d[KeyDone])
    /\ \A key \in {KeyActions, KeyItems, KeyEnemies, KeySpecialFeatures} :
          key \in DOMAIN data.d => IsStrListField(data.d[key])

\* the texts of a list of str
Texts(j) == [i \in 1..Len(j.l) |-> j.l[i].v]

\* a Turn: its declared fields, the extra fields it was given, and debug_raw
EngineTurn(narration, actions, mem, done, its, ens, features, extra, debug_raw) ==
    [narration |-> narration, actions |-> actions, memory |-> mem,
     done |-> done, items |-> its, enemies |-> ens,
     special_features |-> features, extra |-> extra, debug_raw |-> debug_raw]

\* a declared field of type List[str], [] by default
ListField(d, key) == IF key \in DOMAIN d THEN Texts(d[key]) ELSE <<>>

\* Turn.model_validate(data) of a valid mapping, then turn.debug_raw = data
ModelValidate(data) ==
    EngineTurn(data.d[Narration].v,
               ListField(data.d, KeyActions),
               IF KeyMemory \in DOMAIN data.d THEN data.d[KeyMemory].v ELSE <<>>,
               IF KeyDone \in DOMAIN data.d THEN BoolField(data.d[KeyDone]) ELSE FALSE,
               ListField(data.d, KeyItems),
               ListField(data.d, KeyEnemies),
               ListField(data.d, KeySpecialFeatures),
               [key \in DOMAIN data.d \ TurnFields |-> data.d[key]],
               data)

\* bool(j), the texts being sequences
Bool(j) ==
    CASE j.t = "none" -> FALSE
      [] j.t = "int" -> j.n # 0
      [] j.t = "str" -> j.v # <<>>
      [] j.t = "bool" -> j.b
      [] j.t = "list" -> j.l # <<>>
      [] OTHER -> DOMAIN j.d # {}

\* d.get(key, default)
GetOr(d, key, default) == IF key \in DOMAIN d THEN d[key] ELSE default

\* whether list(j) is a TypeError
NotIterable(j) == j.t \in {"none", "int", "bool"}

\* list(j) of an iterable: the items of a list, the characters of a str, the
\* keys of a dict (the order of whose keys is kept for no more than one key)
ListOf(j) ==
    CASE j.t = "list" -> j.l
      [] j.t = "str" -> [i \in 1..Len(j.v) |-> JStr(<<j.v[i]>>)]
      [] j.t = "dict" /\ DOMAIN j.d = {} -> <<>>
      [] j.t = "dict" /\ Cardinality(DOMAIN j.d) = 1 ->
            <<JStr(CHOOSE key \in DOMAIN j.d : TRUE)>>

\* str(j) of a str, an int, a None or a bool
StrOf(j) ==
    CASE j.t = "str" -> j.v
      [] j.t = "int" -> IntText(j.n)
      [] j.t \in {"none", "bool"} -> PyStr(j)

\* data.get("actions") or data.get("available_actions") or []
ActionsOrEmpty(d) ==
    IF Bool(GetOr(d, KeyActions, JNone)) THEN d[KeyActions]
    ELSE IF Bool(GetOr(d, KeyAvailableActions, JNone)) THEN d[KeyAvailableActions]
    ELSE JList(<<>>)

\* the lists the fallback hands to Turn(...)
FallbackLists(d) ==
    <<ActionsOrEmpty(d), GetOr(d, KeyItems, JList(<<>>)),
      GetOr(d, KeyEnemies, JList(<<>>)), GetOr(d, KeySpecialFeatures, JList(<<>>))>>

\* whether "Try to map common variations" raises: data has no get, a value
\* cannot be made a list, or Turn(...) is given a list with an item that is
\* no str
FallbackRaises(data) ==
    \/ data.t # "dict"
    \/ \E i \in 1..4 :
          \/ NotIterable(FallbackLists(data.d)[i])
          \/ ~IsStrListField(JList(ListOf(FallbackLists(data.d)[i])))

\* the Turn of "Try to map common variations", then turn.debug_raw = data
FallbackTurn(data, raw, mem) ==
    EngineTurn(StrOf(GetOr(data.d, Narration, JStr(raw))),
               Texts(JList(ListOf(FallbackLists(data.d)[1]))),
               StrOf(GetOr(data.d, KeyMemory, JStr(mem))),
               Bool(GetOr(data.d, KeyDone, GetOr(data.d, KeyGameOver, JBool(FALSE)))),
               Texts(JList(ListOf(FallbackLists(data.d)[2]))),
               Texts(JList(ListOf(FallbackLists(data.d)[3]))),
               Texts(JList(ListOf(FallbackLists(data.d)[4]))),
               EmptyDict, data)

\* a provider's answer to complete(): the text it returns, or its failure
Answer(ok, raw) == [ok |-> ok, raw |-> raw]

\* GameEngine._build_user_payload; action is None or a text
BuildUserPayload(w, action) ==
    JsonDumps(DObj(<<
        <<KeyPlayer, DObj(<< <<KeyName, JStr(w.config.player_name)>>,
                             <<KeyRole, JStr(w.config.role)>> >>)>>,
        <<KeyMemory, JStr(w.memory)>>,
        <<KeyAction, IF action = None THEN JNone ELSE JStr(action[1])>> >>))

\* a _call that keeps the old memory when the Turn's is empty
ReturnTurnKeepingMemory(w, turn) ==
    [w EXCEPT !.memory = IF turn.memory = <<>> THEN @ ELSE turn.memory,
              !.engine_turn = Some(turn)]

\* _call returns turn: self.memory = turn.memory
ReturnTurn(w, turn) ==
    [w EXCEPT !.memory = turn.memory, !.engine_turn = Some(turn)]

\* _call from "data = coerce_json(raw)" on
CallCoerced(w, raw, data) ==
    IF ModelValid(data) THEN ReturnTurn(w, ModelValidate(data))
    ELSE IF FallbackRaises(data) THEN [w EXCEPT !.raised = TRUE]
    ELSE ReturnTurn(w, FallbackTurn(data, raw, w.memory))

\* what the log keeps of a call of provider.complete: the system prompt and
\* the user payload
Completion(system_prompt, user_payload) ==
    [system |-> system_prompt, user |-> user_payload]

\* provider.complete(messages=messages, json_object=True) is called
Completed(w, system_prompt, action) ==
    [w EXCEPT !.calls = Append(@, Completion(system_prompt, BuildUserPayload(w, action))),
              !.engine_turn = None]

\* a _call that asks the provider once more when it failed
EngineCallRetrying(w, action, system_prompt, answer) ==
    IF ~answer.ok
    THEN [Completed(Completed(w, system_prompt, action), system_prompt, action)
             EXCEPT !.raised = TRUE]
    ELSE CallCoerced(Completed(w, system_prompt, action), answer.raw,
                     CoerceJson(JStr(answer.raw)).value)

\* GameEngine._call
EngineCall(w, action, system_prompt, answer) ==
    IF ~answer.ok THEN [Completed(w, system_prompt, action) EXCEPT !.raised = TRUE]
    ELSE CallCoerced(Completed(w, system_prompt, action), answer.raw,
                     CoerceJson(JStr(answer.raw)).value)

\* GameEngine.start_new_story
StartNewStory(w, answer) == EngineCall(w, None, "ROOM_GENERATION_PROMPT", answer)

\* the rolling history holds the last HistoryLen entries
HistoryLen == 6

\* a step that trims the history before it appends
RememberedTrimFirst(w, action) ==
    [w EXCEPT !.history =
        Append(IF Len(@) > HistoryLen THEN LastN(@, HistoryLen) ELSE @,
               [role |-> "user", content |-> action])]

\* self.history.append(...); if len(self.history) > 6: keep the last 6
Remembered(w, action) ==
    [w EXCEPT !.history =
        IF Len(@) + 1 > HistoryLen
        THEN LastN(Append(@, [role |-> "user", content |-> action]), HistoryLen)
        ELSE Append(@, [role |-> "user", content |-> action])]

\* GameEngine.step
EngineStep(w, action, answer) ==
    EngineCall(Remembered(w, action), Some(action), "ACTION_PROCESSING_PROMPT", answer)

(***************************************************************************)
(* SpecStory: the game is initialized with a provider, whose opening reply *)
(* is translated by StorySystem.start, and the player then types one       *)
(* action, whose reply is translated by StorySystem.step.  The replies are *)
(* Turns as engine.py validates them: narration a text, actions a list of  *)
(* texts, done a boolean; player_updates and room_updates are extra fields *)
(* and arrive as the reply gave them.                                      *)
(***************************************************************************)
MaxListLen == 11

ActionsLen == 6

GameWidth == 60
GameHeight == 20

NamePool ==
    <<"amulet", "bow", "candle", "dagger", "elixir", "flute", "gem", "helm",
      "idol", "jar", "key", "lamp">>

\* the first n names, as the JSON strings of a reply
NameList(n) == [i \in 1..Min(n, Len(NamePool)) |-> JStr(NamePool[i])]

\* a five-row layout; a row is the sequence of its characters
Layout5 ==
    JList(<< JStr(<<"#", "#", "#", "#", "#">>),
             JStr(<<"#", ".", ".", ">", "#">>),
             JStr(<<"#", ".", "+", ".", "#">>),
             JStr(<<"#", "<", ".", ".", "#">>),
             JStr(<<"#", "#", "#", "#", "#">>) >>)

Narrations == {"", "A cold wind blows."}

ActionLists ==
    {<<>>, <<"look">>, [i \in 1..Min(ActionsLen, Len(NamePool)) |-> NamePool[i]]}

PlayerUpdates ==
    { JNone,
      JStr("none"),
      JDict(EmptyDict),
      JDict([health |-> JInt(50)]),
      JDict([health |-> JInt(0), mana |-> JInt(5), experience |-> JInt(10),
             gold |-> JInt(7), inventory |-> JList(<<JStr("Rope"), JInt(7)>>)]) }

RoomUpdates ==
    { JNone,
      JStr("none"),
      JDict(EmptyDict),
      JDict([items |-> JList(NameList(1))]),
      JDict([enemies |-> JList(NameList(1)), new_room |-> JBool(FALSE)]),
      JDict([items |-> JList(NameList(MaxListLen)),
             enemies |-> JList(NameList(MaxListLen))]),
      JDict([items |-> JList(<<JStr("rope"), JInt(3), JStr("torch")>>),
             enemies |-> JList(<<JInt(1), JStr("Bat")>>)]),
      JDict([items |-> JNone, enemies |-> JList(<<>>), layout |-> JNone]),
      JDict([layout |-> Layout5]),
      JDict([layout |-> JList(<<JStr(<<"#", ".">>), JInt(0)>>)]),
      JDict([layout |-> JStr(<<"#", ".">>)]),
      JDict([new_room |-> JBool(TRUE)]),
      JDict([layout |-> Layout5, new_room |-> JBool(TRUE)]),
      JDict([items |-> JList(NameList(MaxListLen)),
             enemies |-> JList(NameList(MaxListLen)),
             layout |-> Layout5, new_room |-> JBool(TRUE)]) }

Turn(narration, actions, player_updates, room_updates, done) ==
    [narration |-> narration, actions |-> actions,
     player_updates |-> player_updates, room_updates |-> room_updates,
     done |-> done]

Turns ==
    {Turn(n, a, pu, ru, d) :
        n \in Narrations, a \in ActionLists, pu \in PlayerUpdates,
        ru \in RoomUpdates, d \in BOOLEAN}

OpeningTurns ==
    {Turn("You wake in the dark.", <<"look">>, pu, ru, FALSE) :
        pu \in {JNone,
                JDict([health |-> JInt(50), gold |-> JInt(7),
                       inventory |-> JList(<<JStr("Rope")>>)])},
        ru \in {JNone, JDict([items |-> JList(NameList(1))])}}

StoryTapes == {<<0>>, <<3, 1, 4, 1, 5, 9, 2, 6>>}

InitStory ==
    /\ \E tape \in StoryTapes : Start(NewGame(GameWidth, GameHeight, tape))
    /\ pc = "new"

\* initialize_game("Hero", "Warrior") with a provider
StoryInitialize ==
    /\ pc = "new"
    /\ \E opening \in OpeningTurns :
          Commit(InitializeGame(World, "Hero", "Warrior", None,
                                Some(Reply(TRUE, opening))))
    /\ pc' = "ready"

\* _open_prompt: the typed action goes to AIActionCommand.execute
StoryAct ==
    /\ pc = "ready"
    /\ \E turn \in Turns :
          Commit(OpenPrompt(Calm(World), "look", Reply(TRUE, turn)))
    /\ pc' = "acted"

NextStory == StoryInitialize \/ StoryAct

SpecStory == InitStory /\ [][NextStory]_vars

\* the translator ran in the last operation
TranslatorRan == last.op \in {"start", "step"}

\* the events the last translator invocation published, in publish order
Translated ==
    [i \in 1..(Len(published) - last.first + 1) |->
        published[last.first + i - 1].event]

\* how many events of a sequence have the given type
CountOf(ev, type) == Cardinality({i \in 1..Len(ev) : ev[i].type = type})

\* the place an event has in the translator's order
Stage(e) ==
    CASE e.type = "TurnDebug" -> 1
      [] e.type = "Message" /\ e.color = "white" -> 2
      [] e.type = "Message" /\ e.color = "cyan" -> 3
      [] e.type = "PlayerUpdated" -> 4
      [] e.type = "SpawnItem" -> 5
      [] e.type = "SpawnEnemy" -> 6
      [] e.type = "LayoutChanged" -> 7
      [] e.type = "NewRoom" -> 8
      [] e.type = "Message" /\ e.color = "yellow" -> 9
      [] e.type = "TurnAdvanced" -> 10
      [] OTHER -> 0

\* the value a room_updates dict gives a key, None when it is no dict
RoomValue(turn, key) ==
    IF turn.room_updates.t = "dict" /\ key \in DOMAIN turn.room_updates.d
    THEN turn.room_updates.d[key]
    ELSE JNone

\* the texts among the first n entries of the list a room_updates key gives
LeadingNames(turn, key, n) ==
    LET j == RoomValue(turn, key)
        l == IF j.t = "list" THEN j.l ELSE <<>>
        head == SubSeq(l, 1, IF Len(l) < n THEN Len(l) ELSE n)
        strs == SelectSeq(head, LAMBDA x : x.t = "str")
    IN  [i \in 1..Len(strs) |-> strs[i].v]

\* the names of the events of the given type, in publish order
NamesOf(ev, type) ==
    LET es == SelectSeq(ev, LAMBDA e : e.type = type)
    IN  [i \in 1..Len(es) |-> es[i].name]

NewRoomBeforeLayout ==
    (/\ TranslatorRan
     /\ Truthy(RoomValue(last.turn, "new_room"))
     /\ RoomValue(last.turn, "layout") = Layout5)
    => /\ CountOf(Translated, "NewRoom") = 1
       /\ CountOf(Translated, "LayoutChanged") = 1
       /\ \A i, j, k \in 1..Len(Translated) :
             (/\ Translated[i].type = "NewRoom"
              /\ Translated[j].type = "LayoutChanged"
              /\ Translated[k].type = "TurnAdvanced")
             => i < j /\ j < k

\* C4: one translator invocation lists at most 5 actions in its suggestions
\* message and publishes at most 10 SpawnItem and at most 8 SpawnEnemy events,
\* for the leading entries of each list in their order.
TranslatorCaps ==
    TranslatorRan =>
        LET ev == Translated
            t == last.turn
            shown == SubSeq(t.actions, 1,
                            IF Len(t.actions) < 5 THEN Len(t.actions) ELSE 5)
        IN  /\ \A i \in 1..Len(ev) :
                  Stage(ev[i]) = 3 => ev[i].text = "Actions: " \o Join(shown, ", ")
            /\ Len(NamesOf(ev, "SpawnItem")) <= 10
            /\ NamesOf(ev, "SpawnItem") = LeadingNames(t, "items", 10)
            /\ Len(NamesOf(ev, "SpawnEnemy")) <= 8
            /\ NamesOf(ev, "SpawnEnemy") = LeadingNames(t, "enemies", 8)

\* a turn with more than 5 actions, 10 items and 8 enemies was translated
\* into 10 SpawnItem and 8 SpawnEnemy events
TranslatedLongLists ==
    /\ TranslatorRan
    /\ Len(last.turn.actions) > 5
    /\ RoomValue(last.turn, "items").t = "list"
    /\ Len(RoomValue(last.turn, "items").l) > 10
    /\ RoomValue(last.turn, "enemies").t = "list"
    /\ Len(RoomValue(last.turn, "enemies").l) > 8
    /\ CountOf(Translated, "SpawnItem") = 10
    /\ CountOf(Translated, "SpawnEnemy") = 8
    /\ \E i \in 1..Len(Translated) : Stage(Translated[i]) = 3

(***************************************************************************)
(* SpecDungeon: the game is initialized with a provider whose opening turn *)
(* replaces the layout around the start cell, and its dungeon is then      *)
(* driven by MoveCommand.execute and by VisualDungeon.update_enemies.  The *)
(* draws of the random module are inputs of each operation, and the logs   *)
(* start anew with each operation.                                         *)
(***************************************************************************)
MaxSteps == 7

\* the layout of the opening turn: 12 rows of 21 cells, a passage from the
\* start cell up to the edge of the grid and a few cells around the start
ArenaWidth == 21
ArenaHeight == 12

ArenaCell(x, y) ==
    CASE x = 10 /\ y = 4 -> "+"
      [] x = 10 /\ y = 2 -> ">"
      [] x = 10 /\ y = 1 -> "<"
      [] x = 10 /\ y \in 0..6 -> "."
      [] y = 5 /\ x \in 9..12 -> "."
      [] x = 9 /\ y = 4 -> "."
      [] y = 11 -> "█"
      [] OTHER -> "#"

ArenaLayout ==
    JList([y \in 1..ArenaHeight |->
              JStr([x \in 1..ArenaWidth |-> ArenaCell(x - 1, y - 1)])])

ArenaTurn ==
    Turn("You wake in a narrow vault.", <<"look">>, JNone,
         JDict([layout |-> ArenaLayout]), FALSE)

\* the draws generate_dungeon makes, all for the first room: per item the
\* room, x - 6, y - 4 and the catalog entry; per enemy the room, x - 6, y - 4,
\* the name, health - 30 and max_health - 30
ArenaTape ==
    <<0, 4, 2, 2,   0, 4, 2, 1,   0, 3, 1, 0,   0, 12, 5, 3,
      0, 12, 5, 4,  0, 12, 5, 0,  0, 12, 5, 1,  0, 12, 5, 2,
      0, 5, 1, 0, 0, 0,    0, 6, 1, 1, 2, 2,    0, 3, 0, 2, 6, 6,
      0, 12, 5, 3, 0, 0,   0, 12, 5, 3, 0, 0>>

\* the draws of a move, for the damages 10, 15, 25 and 11
Rolls == {0, 5, 15, 33}

\* the draws of update_enemies: below 3 the enemy moves
EnemyTapes == {<<0>>, <<0, 5>>, <<5, 0>>}

\* the random module is about to give the draws of tape
Rolled(w, tape) == [w EXCEPT !.rng = [tape |-> tape, pos |-> 0]]

\* an operation begins: the logs start anew, no exception is in flight
Fresh(w, op) ==
    [w EXCEPT !.published = <<>>, !.delivered = <<>>, !.moves = <<>>,
              !.fallen = <<>>, !.raised = FALSE,
              !.last = [op |-> op, turn_count |-> w.turn_count,
                        entities |-> w.entities]]

\* an operation is over: the draws to come are those of the next operation
Settled(w) == Rolled(w, <<0>>)

InitDungeon ==
    /\ Start(NewGame(GameWidth, GameHeight, ArenaTape))
    /\ pc = 0

\* initialize_game("Hero", "Warrior") with a provider
DungeonInitialize ==
    /\ pc = 0
    /\ Commit(Settled(InitializeGame(World, "Hero", "Warrior", None,
                                     Some(Reply(TRUE, ArenaTurn)))))
    /\ pc' = 1

\* MoveCommand(direction).execute(state, bus)
DungeonMove ==
    /\ pc \in 1..(MaxSteps - 1)
    /\ \E direction \in Direction, roll \in Rolls :
          Commit(Settled(MoveCommandExecute(
                             Rolled(Fresh(World, "move"), <<roll>>), direction)))
    /\ pc' = pc + 1

\* dungeon.update_enemies()
DungeonEnemies ==
    /\ pc \in 1..(MaxSteps - 1)
    /\ \E tape \in EnemyTapes :
          Commit(Settled(UpdateEnemies(Rolled(Fresh(World, "enemies"), tape))))
    /\ pc' = pc + 1

NextDungeon == DungeonInitialize \/ DungeonMove \/ DungeonEnemies

SpecDungeon == InitDungeon /\ [][NextDungeon]_vars

\* the entity of the given id in a list that holds it
EntityIn(ents, id) == ents[IndexOfId(ents, id)]

HoldsId(ents, id) == \E i \in 1..Len(ents) : ents[i].id = id

\* the cell a logged move was headed for
DestX(m) ==
    EntityIn(m.before, m.id).x
        + (CASE m.direction = "LEFT" -> -1 [] m.direction = "RIGHT" -> 1
             [] OTHER -> 0)

DestY(m) ==
    EntityIn(m.before, m.id).y
        + (CASE m.direction = "UP" -> -1 [] m.direction = "DOWN" -> 1
             [] OTHER -> 0)

DestInGrid(m) ==
    0 <= DestX(m) /\ DestX(m) < width /\ 0 <= DestY(m) /\ DestY(m) < height

DestIsWall(m) == DestInGrid(m) /\ grid[DestY(m)][DestX(m)] = "WALL"

\* the places in the list of the other entities standing on the destination
Occupants(m) ==
    {i \in 1..Len(m.before) :
        /\ m.before[i].id # m.id
        /\ m.before[i].x = DestX(m)
        /\ m.before[i].y = DestY(m)}

Blocked(m) == ~DestInGrid(m) \/ DestIsWall(m) \/ Occupants(m) # {}

\* the move ran into an entity: the first in the list on the destination
RanInto(m) == DestInGrid(m) /\ ~DestIsWall(m) /\ Occupants(m) # {}

Occupant(m) == m.before[MinOf(Occupants(m))]

\* C7: move_entity returns false and leaves the entity where it was iff the
\* destination is out of bounds, a wall or occupied by another entity;
\* otherwise it returns true and the entity is on the destination.
MoveBlockedIff ==
    \A k \in 1..Len(moves) :
        LET m == moves[k]
            was == EntityIn(m.before, m.id)
            now == EntityIn(m.after, m.id)
        IN  /\ HoldsId(m.after, m.id)
            /\ Blocked(m) => ~m.ret /\ now.x = was.x /\ now.y = was.y
            /\ ~Blocked(m) => m.ret /\ now.x = DestX(m) /\ now.y = DestY(m)
            /\ (~m.ret /\ now.x = was.x /\ now.y = was.y) <=> Blocked(m)

\* one call of update_enemies made a move that a wall stopped, a move that an
\* entity stopped and a move that took the enemy to its destination
MovesOfEveryOutcome ==
    /\ \E k \in 1..Len(moves) : DestIsWall(moves[k]) /\ ~moves[k].ret
    /\ \E k \in 1..Len(moves) : RanInto(moves[k]) /\ ~moves[k].ret
    /\ \E k \in 1..Len(moves) : ~Blocked(moves[k]) /\ moves[k].ret

\* the player's move was headed out of the grid and returned false
MoveOutOfGrid ==
    \E k \in 1..Len(moves) :
        ~DestInGrid(moves[k]) /\ moves[k].id = player /\ ~moves[k].ret

\* the list after the entity at place i lost d health: without it when its
\* health is spent
AfterHit(ents, i, d) ==
    IF ents[i].health - d <= 0
    THEN SubSeq(ents, 1, i - 1) \o SubSeq(ents, i + 1, Len(ents))
    ELSE [ents EXCEPT ![i].health = @ - d]

\* the items without the first one on the cell, if there is one
AfterPickup(its, x, y) ==
    LET here == {i \in 1..Len(its) : its[i].x = x /\ its[i].y = y}
    IN  IF here = {} THEN its
        ELSE SubSeq(its, 1, MinOf(here) - 1) \o SubSeq(its, MinOf(here) + 1, Len(its))

\* C8: a player's move into an occupied cell is one combat against the
\* occupant and moves nobody; any other entity's move into an occupied cell
\* changes no entity; the player's relocation picks up at the new cell; any
\* other entity's relocation removes no item.
MoveCombatAndPickup ==
    \A k \in 1..Len(moves) :
        LET m == moves[k]
        IN  /\ (RanInto(m) /\ m.id = player) =>
                  /\ \E d \in 10..25 :
                        m.after = AfterHit(m.before, MinOf(Occupants(m)), d)
                  /\ m.items_after = m.items_before
            /\ (RanInto(m) /\ m.id # player) =>
                  /\ m.after = m.before
                  /\ m.items_after = m.items_before
            /\ (~Blocked(m) /\ m.id = player) =>
                  m.items_after = AfterPickup(m.items_before, DestX(m), DestY(m))
            /\ (~Blocked(m) /\ m.id # player) =>
                  m.items_after = m.items_before

\* the player ran into an entity and hurt it, after having picked up an item
PlayerFoughtOccupant ==
    /\ Len(items) < ItemAttempts
    /\ \E k \in 1..Len(moves) :
          /\ RanInto(moves[k])
          /\ moves[k].id = player
          /\ HoldsId(moves[k].after, Occupant(moves[k]).id)
          /\ EntityIn(moves[k].after, Occupant(moves[k]).id).health
                < Occupant(moves[k]).health

\* C9: combat takes 10 to 25 health from the defender; a defender left with 0
\* or less is marked not alive and is out of the entity list when the call
\* returns; one left with 1 or more stays in the list, alive.
CombatDamageAndRemoval ==
    /\ \A i \in 1..Len(entities) : entities[i].is_alive /\ entities[i].health >= 1
    /\ \A j \in 1..Len(fallen) :
          /\ ~fallen[j].is_alive
          /\ fallen[j].health <= 0
          /\ ~HoldsId(entities, fallen[j].id)
    /\ \A k \in 1..Len(moves) :
          (RanInto(moves[k]) /\ moves[k].id = player) =>
              LET m == moves[k]
                  o == Occupant(m)
              IN  IF HoldsId(m.after, o.id)
                  THEN /\ o.health - EntityIn(m.after, o.id).health \in 10..25
                       /\ EntityIn(m.after, o.id).health >= 1
                       /\ EntityIn(m.after, o.id).is_alive
                       /\ Len(m.after) = Len(m.before)
                       /\ fallen = <<>>
                  ELSE /\ Len(fallen) = 1
                       /\ fallen[1].id = o.id
                       /\ o.health - fallen[1].health \in 10..25
                       /\ Len(m.after) = Len(m.before) - 1

\* a combat left its defender with exactly 0 health and removed it
DefenderFell ==
    /\ Len(fallen) = 1
    /\ fallen[1].health = 0
    /\ ~HoldsId(entities, fallen[1].id)

\* C10: MoveCommand.execute on a move that succeeds adds 1 to turn_count and
\* publishes one TurnAdvanced(1) and nothing else; on a move that fails it
\* publishes one "blocked" message and nothing else, and leaves turn_count.
MoveCommandOutcome ==
    last.op = "move" =>
        /\ Len(moves) = 1
        /\ moves[1].id = player
        /\ moves[1].ret = ~Blocked(moves[1])
        /\ moves[1].ret =>
              /\ turn_count = last.turn_count + 1
              /\ Len(published) = 1
              /\ published[1].event = TurnAdvancedEvent(1)
        /\ ~moves[1].ret =>
              /\ turn_count = last.turn_count
              /\ Len(published) = 1
              /\ published[1].event.type = "Message"
              /\ published[1].event.text = "Your way is blocked!"

\* a move succeeded after one that had failed
MovedAfterBlocked ==
    /\ last.op = "move"
    /\ moves[1].ret
    /\ turn_count >= 1
    /\ turn_count < pc - 1
    /\ published[1].event = TurnAdvancedEvent(1)

(***************************************************************************)
(* SpecBus: an EventBus alone, driven by a caller that registers test      *)
(* handlers and publishes events                                           *)
(***************************************************************************)
MaxPublishes == 3

TestHandlers == {"observer", "subscriber", "raiser"}

BusEvents == {TurnAdvancedEvent(1), NewRoomEvent}

InitBus ==
    /\ Start(NewGame(0, 0, <<0>>))
    /\ pc = "bus"

BusSubscribe ==
    /\ Len(subs) < MaxSubs
    /\ \E kind \in TestHandlers : Commit(Subscribe(World, kind))
    /\ UNCHANGED pc

BusPublish ==
    /\ Len(published) < MaxPublishes
    /\ \E event \in BusEvents : Commit(Publish(Calm(World), event))
    /\ UNCHANGED pc

NextBus == BusSubscribe \/ BusPublish

SpecBus == InitBus /\ [][NextBus]_vars

\* the handlers invoked for the k-th publish, in the order they were invoked
InvokedFor(k) ==
    LET ds == SelectSeq(delivered, LAMBDA d : d.n = k)
    IN  [i \in 1..Len(ds) |-> ds[i].h]

\* how many times handler i was given the k-th published event
TimesGiven(i, k) ==
    Cardinality({j \in 1..Len(delivered) : delivered[j].h = i /\ delivered[j].n = k})

\* C5: a publish that returns has invoked the handlers registered when it was
\* called, each once, in registration order, before any later publish invokes
\* one; a handler registered while an event is dispatched is not given that
\* event and is given every later one.
BusSnapshotDelivery ==
    /\ \A k \in 1..Len(published) :
          published[k].ok =>
              /\ InvokedFor(k) = [i \in 1..published[k].nsubs |-> i]
              /\ \A i \in 1..Len(subs) :
                    TimesGiven(i, k) = IF subs[i].at < k THEN 1 ELSE 0
    /\ \A a, b \in 1..Len(delivered) : a < b => delivered[a].n <= delivered[b].n

\* a handler was registered during the dispatch of an event that was
\* published, was not given it, and was given a later one
BusSubscribedInFlight ==
    \E i \in 1..Len(subs) : \E k, j \in 1..Len(published) :
        /\ subs[i].at = k
        /\ k < j
        /\ published[k].ok
        /\ published[j].ok
        /\ TimesGiven(i, k) = 0
        /\ TimesGiven(i, j) = 1

\* C6: when a handler raises, the event still reaches every handler
\* registered when publish was called, and publish returns.
BusIsolatesFailures ==
    \A k \in 1..Len(published) :
        (\E j \in 1..Len(delivered) :
            delivered[j].n = k /\ subs[delivered[j].h].kind = "raiser")
        => /\ published[k].ok
           /\ \A i \in 1..published[k].nsubs : TimesGiven(i, k) = 1

(***************************************************************************)
(* SpecCommands: the game is initialized with or without a provider and    *)
(* is then driven by the commands of commands.py and by the prompt for an  *)
(* AI action.  The logs start anew with each operation, which keeps what   *)
(* it found in "last".                                                     *)
(***************************************************************************)
MaxCommands == 5

\* an operation begins: besides starting the logs anew, "last" keeps the
\* state the operation found
Snapshot(w, op) ==
    [Fresh(w, op) EXCEPT
        !.last = [op |-> op, turn_count |-> w.turn_count,
                  entities |-> w.entities, items |-> w.items, grid |-> w.grid,
                  pstats |-> w.pstats, game_turn_count |-> w.game_turn_count,
                  story_system |-> w.story_system, messages |-> w.messages,
                  calls |-> w.calls]]

\* the replies to a typed action: a failure of the call and two Turns
PromptReplies ==
    {Reply(FALSE, JNone),
     Reply(TRUE, Turn("A cold wind blows.", <<"look">>, JNone, JNone, FALSE)),
     Reply(TRUE, Turn("", <<>>, JDict([health |-> JInt(50)]),
                      JDict([items |-> JList(NameList(1))]), TRUE))}

InitCommands ==
    /\ Start(NewGame(GameWidth, GameHeight, ArenaTape))
    /\ pc = 0

\* initialize_game("Hero", "Warrior"), with a provider or without one
CommandsInitialize ==
    /\ pc = 0
    /\ \E provider \in {None, Some(Reply(TRUE, ArenaTurn))} :
          Commit(Settled(InitializeGame(World, "Hero", "Warrior", None, provider)))
    /\ pc' = 1

\* MoveCommand(direction).execute(state, bus)
CommandsMove ==
    /\ pc \in 1..(MaxCommands - 1)
    /\ \E direction \in Direction :
          Commit(Settled(MoveCommandExecute(
                             Rolled(Snapshot(World, "move"), <<15>>), direction)))
    /\ pc' = pc + 1

\* InspectCommand().execute(state, bus)
CommandsInspect ==
    /\ pc \in 1..(MaxCommands - 1)
    /\ Commit(InspectCommandExecute(Snapshot(World, "inspect")))
    /\ pc' = pc + 1

\* WaitCommand().execute(state, bus)
CommandsWait ==
    /\ pc \in 1..(MaxCommands - 1)
    /\ Commit(WaitCommandExecute(Snapshot(World, "wait")))
    /\ pc' = pc + 1

\* _open_prompt(), the player typing "look" or nothing
CommandsPrompt ==
    /\ pc \in 1..(MaxCommands - 1)
    /\ \E action \in {"", "look"}, reply \in PromptReplies :
          Commit(Settled(OpenPrompt(Snapshot(World, "prompt"), action, reply)))
    /\ pc' = pc + 1

NextCommands ==
    \/ CommandsInitialize
    \/ CommandsMove
    \/ CommandsInspect
    \/ CommandsWait
    \/ CommandsPrompt

SpecCommands == InitCommands /\ [][NextCommands]_vars

\* the events the last operation published, in order
PublishedEvents == [k \in 1..Len(published) |-> published[k].event]

\* C11: InspectCommand.execute and WaitCommand.execute publish one message,
\* then add 1 to GameState.turn_count, then publish one TurnAdvanced(1), and
\* change no entity, item or grid cell.
InspectAndWaitOutcome ==
    last.op \in {"inspect", "wait"} =>
        /\ ~raised
        /\ Len(published) = 2
        /\ published[1].event =
              (IF last.op = "inspect"
               THEN MessageEvent("You carefully examine your surroundings...", "cyan")
               ELSE MessageEvent("You wait and catch your breath.", "gray"))
        /\ published[1].turn_count = last.turn_count
        /\ published[2].event = TurnAdvancedEvent(1)
        /\ published[2].turn_count = last.turn_count + 1
        /\ turn_count = last.turn_count + 1
        /\ entities = last.entities
        /\ items = last.items
        /\ grid = last.grid

\* the player waited in a dungeon that a move had changed before
WaitedAfterMove ==
    /\ last.op = "wait"
    /\ last.turn_count >= 1
    /\ Len(published) = 2
    /\ \E i \in 1..Len(entities) : entities[i].id = player /\ entities[i].x # StartX
    /\ Len(entities) > 1
    /\ items # <<>>

\* C12: an AI action issued while no story system is configured publishes
\* exactly one message event, a warning, on the bus, calls no provider and
\* changes no turn counter, entity, item, grid cell or player stat.
PromptWithoutStorySystem ==
    (last.op = "prompt" /\ ~last.story_system) =>
        /\ Len(published) = 1
        /\ published[1].event.type = "Message"
        /\ calls = last.calls
        /\ turn_count = last.turn_count
        /\ game_turn_count = last.game_turn_count
        /\ entities = last.entities
        /\ items = last.items
        /\ grid = last.grid
        /\ pstats = last.pstats

(***************************************************************************)
(* SpecCoerce: coerce_json is given one reply.  A reply is a document      *)
(* written in a style and wrapped the way providers wrap replies, or one   *)
(* of a few texts that write no document.                                  *)
(***************************************************************************)
TextA == <<"a">>
TextB == <<"b">>
TextHi == <<"h", "i">>
TextNone == <<"N", "o", "n", "e">>
TextGo == <<"g", "o", " ", "x", ":", " ", "y">>
TextIts == <<"i", "t", "'", "s">>
TextSay == <<"s", "a", "y", " ", "\"", "h", "i", "\"">>
TextEnd == <<"i", "t", "'", "s", ",", "}">>
Done == <<"d", "o", "n", "e">>

Objects ==
    { DObj(<<>>),
      DObj(<< <<TextA, JStr(TextB)>> >>),
      DObj(<< <<Narration, JStr(TextHi)>>, <<Done, JBool(TRUE)>> >>),
      DObj(<< <<TextA, JInt(1)>>, <<TextB, JList(<<JInt(1), JInt(20)>>)>>,
              <<Done, JNone>> >>),
      DObj(<< <<TextA, DObj(<< <<TextB, JStr(<<>>)>> >>)>>, <<TextB, JList(<<>>)>> >>),
      DObj(<< <<TextA, JInt(-5)>>, <<TextA, JBool(FALSE)>> >>),
      DObj(<< <<TextA, JStr(TextNone)>> >>),
      DObj(<< <<TextA, JStr(TextGo)>> >>),
      DObj(<< <<TextA, JStr(TextIts)>> >>),
      DObj(<< <<TextA, JStr(TextSay)>> >>),
      DObj(<< <<TextA, JStr(TextEnd)>> >>),
      DObj(<< <<TextA, JStr(TextIts)>>, <<TextB, JNone>> >>) }

\* documents that are no objects
Scalars ==
    {JList(<<JInt(1)>>), JList(<<>>), JInt(5), JStr(TextHi), JBool(TRUE), JNone}

Styles ==
    [ json |-> JsonStyle,
      compact |-> Style("\"", <<",">>, <<":">>, <<>>, <<>>, FALSE, FALSE),
      pretty |-> Style("\"", <<",", "\n", " ", " ">>, <<":", " ">>,
                       <<"\n", " ", " ">>, <<"\n">>, FALSE, FALSE),
      single |-> Style("'", <<",", " ">>, <<":", " ">>, <<>>, <<>>, TRUE, FALSE),
      python |-> Style("'", <<",", " ">>, <<":", " ">>, <<>>, <<>>, FALSE, TRUE) ]

Wraps == {"bare", "padded", "fenced", "tagged", "inline", "prose"}

Wrapped(text, wrap) ==
    CASE wrap = "padded" -> <<" ", "\n">> \o text \o <<"\n">>
      [] wrap = "fenced" -> Fence \o <<"\n">> \o text \o <<"\n">> \o Fence
      [] wrap = "tagged" ->
            Fence \o <<"j", "s", "o", "n", "\n">> \o text \o <<"\n">> \o Fence \o <<"\n">>
      [] wrap = "inline" -> Fence \o text \o Fence
      [] wrap = "prose" ->
            <<"S", "u", "r", "e", ":", " ">> \o text \o <<" ", "O", "K", ".">>
      [] OTHER -> text

\* texts that write no document
OddTexts ==
    { <<>>, <<" ", "\n">>, <<"h", "i", " ", "y", "o", "u">>, Fence,
      Fence \o <<"x">> \o Fence, Fence \o <<"\n", "h", "i", "\n">> \o Fence,
      <<"{">>, <<"}", "{">>,
      <<"{", "a", ":", " ", "1", "}">>,
      <<"{", "a", ":", " ", "1", ",", " ", "b", " ", ":", " ", "'", "c", "'", "}">>,
      <<"{", "'", "a", "'", ":", " ", "1">>,
      <<"[", "1", ",", "]">>, <<"0", "1">> }

\* what the log keeps of a reply: the document, style and wrap it was made
\* of (none for the odd texts) and the text itself
Made(doc, style, wrap) ==
    [doc |-> doc, style |-> style, wrap |-> wrap,
     data |-> JStr(Wrapped(Write(doc, Styles[style]), wrap))]

Given(data) == [doc |-> JNone, style |-> "none", wrap |-> "none", data |-> data]

Replies ==
    {Made(doc, style, wrap) :
        doc \in Objects \cup Scalars, style \in DOMAIN Styles, wrap \in Wraps}
    \cup {Given(JStr(text)) : text \in OddTexts}
    \cup {Given(ValueOf(doc)) : doc \in Objects}
    \cup {Given(JNone), Given(JBool(TRUE)), Given(JBool(FALSE))}

InitCoerce ==
    /\ Start(NewGame(0, 0, <<0>>))
    /\ pc = "reply"

\* coerce_json(data)
Coerce ==
    /\ pc = "reply"
    /\ \E reply \in Replies :
          Commit([World EXCEPT !.last = [op |-> "coerce", reply |-> reply,
                                         out |-> CoerceJson(reply.data)]])
    /\ pc' = "coerced"

NextCoerce == Coerce

SpecCoerce == InitCoerce /\ [][NextCoerce]_vars

\* coerce_json was given a str
CoercedText == last.op = "coerce" /\ last.reply.data.t = "str"

\* coerce_json was given a document written in one of the styles and wrapped
\* in one of the ways
CoercedDoc(styles, wraps) ==
    /\ CoercedText
    /\ last.reply.style \in styles
    /\ last.reply.wrap \in wraps

\* C13: coerce_json raises for no str and returns a mapping for every str.
CoerceReturnsMapping ==
    CoercedText => (~raised /\ last.out.value.t = "dict")

\* C15: of a well-formed JSON object text coerce_json returns the mapping the
\* text writes down, from the strict parse alone.
CoerceRoundTrip ==
    (CoercedDoc({"json", "compact", "pretty"}, {"bare", "padded"})
        /\ last.reply.doc.t = "obj")
    => /\ last.out.value = ValueOf(last.reply.doc)
       /\ last.out.rungs = <<"strict">>

\* an object that holds an object, a list and an escaped quote or a key
\* written twice was written over several lines and coerced
RoundTripOfNested ==
    /\ CoercedDoc({"pretty"}, {"padded"})
    /\ last.reply.doc.t = "obj"
    /\ last.out.value.t = "dict"
    /\ \E key \in DOMAIN last.out.value.d :
          /\ last.out.value.d[key].t = "dict"
          /\ DOMAIN last.out.value.d[key].d # {}
    /\ \E key \in DOMAIN last.out.value.d : last.out.value.d[key].t = "list"

\* C16: of a fenced block around an object written with single quotes and a
\* trailing comma coerce_json returns the mapping the object writes down.
FencedSingleQuotedRepaired ==
    (CoercedDoc({"single"}, {"fenced", "tagged"})
        /\ last.reply.doc.t = "obj" /\ last.reply.doc.m # <<>>)
    => last.out.value = ValueOf(last.reply.doc)

\* the rungs of the ladder for a str, in the order of the code
LadderRungs ==
    <<"strict", "braced", "heuristic", "aggressive", "literal s4", "literal s3",
      "literal s2", "narration">>

\* the text the k-th rung works on, s being the stripped reply
RungText(s, k) ==
    CASE k = 1 -> s
      [] k \in {2, 7} -> ExtractBraced(StripCodeFences(s))
      [] k \in {3, 6} -> HeuristicRepair(ExtractBraced(StripCodeFences(s)))
      [] k \in {4, 5} ->
            AggressiveRepair(HeuristicRepair(ExtractBraced(StripCodeFences(s))))
      [] OTHER -> StripCodeFences(s)

\* what the k-th rung alone makes of the stripped reply s
RungOutcome(s, k) ==
    CASE k \in 1..4 -> Loads(RungText(s, k))
      [] k \in 5..7 ->
            IF LiteralEval(RungText(s, k)).ok /\ LiteralEval(RungText(s, k)).v.t = "dict"
            THEN LiteralEval(RungText(s, k))
            ELSE Failed
      [] OTHER -> Parsed(NarrationOnly(RungText(s, k)), 0)

\* C17: the rungs are tried in the order of the ladder, each only when all
\* before it failed; the first that succeeds gives the result; when all fail
\* the result is {"narration": the fence-stripped text}; a mapping is
\* returned as it is.
LadderInOrder ==
    /\ CoercedText =>
          LET s == Strip(last.reply.data.v)
              n == Len(last.out.rungs)
          IN  /\ n \in 1..Len(LadderRungs)
              /\ last.out.rungs = SubSeq(LadderRungs, 1, n)
              /\ \A k \in 1..(n - 1) : ~RungOutcome(s, k).ok
              /\ RungOutcome(s, n).ok
              /\ last.out.value = RungOutcome(s, n).v
    /\ (last.op = "coerce" /\ last.reply.data.t = "dict") =>
          (last.out.value = last.reply.data /\ last.out.rungs = <<"mapping">>)

\* every rung failed on a fenced text, whose fences the narration lost
LadderExhausted ==
    /\ CoercedText
    /\ last.out.rungs = LadderRungs
    /\ StartsWith(last.reply.data.v, Fence)
    /\ last.out.value.d[Narration].v # <<>>
    /\ Len(last.out.value.d[Narration].v) <= Len(last.reply.data.v) - 2 * Len(Fence)

\* the literal evaluation of s3 gave the result
LadderEndedAtLiteral ==
    /\ CoercedText
    /\ Len(last.out.rungs) = 6

(***************************************************************************)
(* story.py: StorySystem.start and step on the engine.  The translator     *)
(* reads the texts of a Turn as strings, all but the rows of a layout.     *)
(***************************************************************************)
RECURSIVE Plain(_)
Plain(j) ==
    CASE j.t = "str" -> JStr(Str(j.v))
      [] j.t = "list" -> JList([i \in 1..Len(j.l) |-> Plain(j.l[i])])
      [] j.t = "dict" ->
            JDict([name \in {Str(key) : key \in DOMAIN j.d} |->
                      IF name = "layout"
                      THEN j.d[CHOOSE key \in DOMAIN j.d : Str(key) = name]
                      ELSE Plain(j.d[CHOOSE key \in DOMAIN j.d : Str(key) = name])])
      [] OTHER -> j

\* the Turn as _turn_to_events reads it with getattr
TurnRead(turn) ==
    Turn(Str(turn.narration),
         [i \in 1..Len(turn.actions) |-> Str(turn.actions[i])],
         Plain(GetOr(turn.extra, KeyPlayerUpdates, JNone)),
         Plain(GetOr(turn.extra, KeyRoomUpdates, JNone)),
         turn.done)

\* self._turn_to_events(turn, state, bus), reached when the engine returned
TranslatedTurn(w) ==
    IF w.raised THEN w ELSE TurnToEvents(w, TurnRead(w.engine_turn[1]))

\* StorySystem.start
SystemStart(w, answer) == TranslatedTurn(StartNewStory(w, answer))

\* StorySystem.step
SystemStep(w, action, answer) == TranslatedTurn(EngineStep(w, action, answer))

(***************************************************************************)
(* SpecEngine: a StorySystem on a GameState and an EventBus without        *)
(* subscribers.  Its caller calls start and step, each call after it has   *)
(* caught the failure of the one before, and the provider answers each     *)
(* call with a text or fails.  "last" keeps what the call found.           *)
(***************************************************************************)
MaxCalls == 3

\* the documents a provider answers with
TurnDocs ==
    { DObj(<< <<Narration, JStr(<<"H", "i">>)>>,
              <<KeyActions, JList(<<JStr(<<"g", "o">>)>>)>>,
              <<KeyMemory, JStr(<<"m", "1">>)>>,
              <<KeyDone, JBool(FALSE)>> >>),
      DObj(<< <<Narration, JStr(<<"D", "a", "r", "k">>)>>, <<KeyMemory, JStr(<<>>)>> >>),
      DObj(<< <<Narration, JStr(<<"U", "p">>)>>,
              <<KeyDone, JBool(TRUE)>>,
              <<KeyPlayerUpdates, DObj(<< <<<<"h", "e", "a", "l", "t", "h">>, JInt(5)>> >>)>>,
              <<KeyRoomUpdates,
                DObj(<< <<KeyItems, JList(<<JStr(<<"k", "e", "y">>)>>)>>,
                        <<<<"n", "e", "w", "_", "r", "o", "o", "m">>, JBool(TRUE)>> >>)>> >>),
      DObj(<< <<Narration, JStr(<<"H", "m">>)>>, <<KeyMemory, JStr(<<"s", "a", "y", " ", "\"", "h", "i", "\"", "\n">>)>> >>),
      DObj(<< <<Narration, JStr(<<"x">>)>>, <<KeyMemory, JNone>> >>),
      DObj(<< <<Narration, JInt(5)>>,
              <<KeyAvailableActions, JList(<<JStr(<<"r", "u", "n">>)>>)>>,
              <<KeyGameOver, JInt(1)>> >>),
      DObj(<< <<Narration, JStr(<<"x">>)>>, <<KeyActions, JInt(5)>> >>),
      DObj(<< <<Narration, JStr(<<"x">>)>>,
              <<KeyAvailableActions, JList(<<JStr(<<"r", "u", "n">>)>>)>>,
              <<KeyGameOver, JBool(TRUE)>> >>),
      DObj(<< <<<<"r", "e", "s", "u", "l", "t">>, JStr(<<"o", "k">>)>>,
              <<KeyAvailableActions, JList(<<JStr(<<"r", "u", "n">>)>>)>>,
              <<KeyPlayerUpdates, DObj(<< <<<<"h", "e", "a", "l", "t", "h">>, JInt(5)>> >>)>>,
              <<KeyGameOver, JBool(TRUE)>> >>),
      JList(<<JInt(1)>>) }

\* answers that are no JSON text
OddAnswers ==
    { <<>>, <<"Y", "o", "u", " ", "s", "e", "e", " ", "a", " ", "d", "o", "o", "r", ".">>,
      Fence \o <<"j", "s", "o", "n", "\n", "{", "'", "n", "a", "r", "r", "a", "t", "i", "o", "n", "'", ":", " ", "'", "H", "i", "'", ",", " ", "'", "m", "e", "m", "o", "r", "y", "'", ":", " ", "'", "m", "2", "'", ",", "}", "\n">> \o Fence }

\* the failure of the call, and the texts
Answers ==
    {Answer(FALSE, <<>>)}
    \cup {Answer(TRUE, JsonDumps(doc)) : doc \in TurnDocs}
    \cup {Answer(TRUE, text) : text \in OddAnswers}

\* the actions a player types
TypedActions == {<<"l", "o", "o", "k">>, <<"s", "a", "y", " ", "\"", "x", "\"">>}

Configs ==
    {[player_name |-> <<"A", "l", " ", "\"", "A", "c", "e", "\"">>, role |-> <<"M", "a", "g", "e">>]}

\* a call begins: no exception is in flight, and "last" keeps the call and
\* what it found
EngineOp(w, op, answer, actions) ==
    [Calm(w) EXCEPT
        !.last = [op |-> op, ok |-> answer.ok, raw |-> answer.raw,
                  memory |-> w.memory,
                  history |-> w.history, calls |-> Len(w.calls),
                  published |-> Len(w.published), prev_turn |-> w.engine_turn,
                  submitted |-> w.last.submitted \o actions]]

\* StorySystem(provider, player_name, role)
NewStorySystem(cfg) ==
    [NewGame(GameWidth, GameHeight, <<0>>) EXCEPT
        !.config = cfg, !.story_system = TRUE,
        !.last = [op |-> "none", submitted |-> <<>>]]

InitEngine ==
    /\ \E cfg \in Configs : Start(NewStorySystem(cfg))
    /\ pc = 0

\* story.start(state, bus)
EngineStart ==
    /\ pc < MaxCalls
    /\ \E answer \in Answers :
          Commit(SystemStart(EngineOp(World, "engine_start", answer, <<>>), answer))
    /\ pc' = pc + 1

\* story.step(action, state, bus)
EngineAct ==
    /\ pc < MaxCalls
    /\ \E answer \in Answers, action \in TypedActions :
          Commit(SystemStep(EngineOp(World, "engine_step", answer, <<action>>),
                            action, answer))
    /\ pc' = pc + 1

NextEngine == EngineStart \/ EngineAct

SpecEngine == InitEngine /\ [][NextEngine]_vars

\* the last operation was a call of the engine
EngineCalled == last.op \in {"engine_start", "engine_step"}

\* C14: whatever text the provider replies, start_new_story and step return
\* a Turn and do not raise.
EngineAlwaysReturnsTurn ==
    (EngineCalled /\ last.ok) => engine_turn # None

\* C19: after a successful call the engine's memory is the memory of the
\* Turn it returned, the empty text included, and the payload of the next
\* call carries that memory.
MemoryPersists ==
    /\ (EngineCalled /\ engine_turn # None) => memory = engine_turn[1].memory
    /\ (EngineCalled /\ last.prev_turn # None) =>
          /\ Loads(calls[Len(calls)].user).ok
          /\ Loads(calls[Len(calls)].user).v.d[KeyMemory]
                 = JStr(last.prev_turn[1].memory)

\* a call made the memory a text with quotes, the next made it empty, and
\* the payload of a third call carried the empty memory
MemoryEmptiedThenSent ==
    /\ EngineCalled
    /\ Len(calls) = 3
    /\ Loads(calls[2].user).v.d[KeyMemory] = JStr(<<"s", "a", "y", " ", "\"", "h", "i", "\"", "\n">>)
    /\ last.prev_turn # None
    /\ last.prev_turn[1].memory = <<>>
    /\ Loads(calls[3].user).v.d[KeyMemory] = JStr(<<>>)
    /\ engine_turn # None

\* C20: a call of start or step calls provider.complete once; when that
\* fails the provider is not called again, the call raises, no Turn is
\* returned and no event is published.
OneCompletionPerCall ==
    EngineCalled =>
        /\ Len(calls) = last.calls + 1
        /\ ~last.ok =>
              /\ raised
              /\ engine_turn = None
              /\ Len(published) = last.published
              /\ memory = last.memory

\* the provider failed on a step, after a start that was translated
ProviderFailedOnStep ==
    /\ last.op = "engine_step"
    /\ ~last.ok
    /\ raised
    /\ last.prev_turn # None
    /\ \E k \in 1..Len(published) : published[k].event = TurnAdvancedEvent(1)

(***************************************************************************)
(* SpecHistory: a GameEngine whose caller calls start_new_story and step,  *)
(* the provider answering with a Turn or failing.  "last" keeps every      *)
(* action that was submitted to step.                                      *)
(***************************************************************************)
MaxSubmits == 7

HistoryAnswers ==
    {Answer(FALSE, <<>>),
     Answer(TRUE, <<"{", "\"", "n", "a", "r", "r", "a", "t", "i", "o", "n", "\"", ":", " ", "\"", "H", "i", "\"", ",", " ", "\"", "m", "e", "m", "o", "r", "y", "\"", ":", " ", "\"", "m", "1", "\"", "}">>)}

HistoryActions == {<<"a">>, <<"b">>}

InitHistory ==
    /\ Start(NewStorySystem([player_name |-> <<"H", "e", "r", "o">>, role |-> <<"W", "a", "r", "r", "i", "o", "r">>]))
    /\ pc = 0

\* engine.start_new_story(), as the first call or on a full history
HistoryStart ==
    /\ pc \in {0, HistoryLen}
    /\ last.op # "engine_start"
    /\ Commit(StartNewStory(EngineOp(World, "engine_start", Answer(TRUE, <<"{", "\"", "n", "a", "r", "r", "a", "t", "i", "o", "n", "\"", ":", " ", "\"", "H", "i", "\"", "}">>), <<>>),
                            Answer(TRUE, <<"{", "\"", "n", "a", "r", "r", "a", "t", "i", "o", "n", "\"", ":", " ", "\"", "H", "i", "\"", "}">>)))
    /\ pc' = pc

\* engine.step(action)
HistoryStep ==
    /\ pc < MaxSubmits
    /\ \E answer \in HistoryAnswers, action \in HistoryActions :
          Commit(EngineStep(EngineOp(World, "engine_step", answer, <<action>>),
                            action, answer))
    /\ pc' = pc + 1

NextHistory == HistoryStart \/ HistoryStep

SpecHistory == InitHistory /\ [][NextHistory]_vars

\* C18: the history holds at most 6 entries, the most recent min(n, 6)
\* actions submitted to step in their order; start_new_story adds none.
HistoryIsRecent ==
    /\ Len(history) <= 6
    /\ Len(history) = Min(Len(last.submitted), 6)
    /\ \A i \in 1..Len(history) :
          history[i] = [role |-> "user",
                        content |-> last.submitted[Len(last.submitted) - Len(history) + i]]
    /\ last.op = "engine_start" => history = last.history

\* a seventh action was submitted and the first one, unlike the second, left
\* the history
HistoryTrimmed ==
    /\ Len(last.submitted) = 7
    /\ last.op = "engine_step"
    /\ Len(history) = 6
    /\ last.submitted[1] # last.submitted[2]
    /\ history[1].content = last.submitted[2]
    /\ history[6].content = last.submitted[7]

(***************************************************************************)
(* SpecSession: a game with a provider behind a GameEngine, or without     *)
(* one, is initialized and then driven by the commands and by the prompt   *)
(* for an AI action.  The engine's fields are touched by nothing but the   *)
(* engine, so a handler's call of the engine is computed first and its     *)
(* outcome handed to the handler.  "last" keeps what an operation found,   *)
(* whether a call of the provider has failed so far, and the sum of the    *)
(* deltas of the TurnAdvanced events published so far.                     *)
(***************************************************************************)
MaxSession == 4

\* what StorySystem gets from the engine: the Turn, or the failure
EngineReply(e) ==
    IF e.raised THEN Reply(FALSE, JNone)
    ELSE Reply(TRUE, TurnRead(e.engine_turn[1]))

\* initialize_game; answer is None (no llm_provider) or Some(the provider's
\* answer to the opening request)
InitializeGameOn(w, player_name, player_class, cfg, seed, answer) ==
    IF IsNone(answer)
    THEN InitializeGame(w, player_name, player_class, seed, None)
    ELSE InitializeGame(
             Calm(StartNewStory([w EXCEPT !.config = cfg], TheVal(answer))),
             player_name, player_class, seed,
             Some(EngineReply(StartNewStory([w EXCEPT !.config = cfg],
                                            TheVal(answer)))))

\* _open_prompt, action being the line that was typed
OpenPromptOn(w, action, answer) ==
    IF w.story_system /\ action # <<>>
    THEN OpenPrompt(Calm(EngineStep(w, action, answer)), Str(action),
                    EngineReply(EngineStep(w, action, answer)))
    ELSE OpenPrompt(w, Str(action), Reply(FALSE, JNone))

\* the sum of the deltas of the TurnAdvanced events among the first k
\* published
RECURSIVE AdvancedBy(_, _)
AdvancedBy(log, k) ==
    IF k = 0 THEN 0
    ELSE AdvancedBy(log, k - 1)
             + (IF log[k].event.type = "TurnAdvanced" THEN log[k].event.delta ELSE 0)

\* an operation is over: "last" gets what it found in the world before
Stamped(w, before, op, ok) ==
    [w EXCEPT
        !.last = [op |-> op, calls |-> Len(before.calls),
                  failed_before |-> before.last.failed,
                  failed |-> \/ before.last.failed
                             \/ Len(w.calls) > Len(before.calls) /\ ~ok,
                  story_system |-> before.story_system,
                  turn_count |-> before.turn_count,
                  advanced |-> before.last.advanced
                                   + AdvancedBy(w.published, Len(w.published))]]

SessionAnswers ==
    {Answer(FALSE, <<>>),
     Answer(TRUE, <<"{", "\"", "n", "a", "r", "r", "a", "t", "i", "o", "n", "\"", ":", " ", "\"", "A", " ", "c", "o", "l", "d", " ", "w", "i", "n", "d", " ", "b", "l", "o", "w", "s", ".", "\"", ",", " ", "\"", "a", "c", "t", "i", "o", "n", "s", "\"", ":", " ", "[", "\"", "l", "o", "o", "k", "\"", "]", ",", " ", "\"", "m", "e", "m", "o", "r", "y", "\"", ":", " ", "\"", "m", "1", "\"", "}">>)}

InitSession ==
    /\ Start([NewGame(GameWidth, GameHeight, ArenaTape) EXCEPT
                 !.last = [op |-> "none", failed |-> FALSE, advanced |-> 0]])
    /\ pc = 0

\* initialize_game("Hero", "Warrior"), with a provider or without one
SessionInitialize ==
    /\ pc = 0
    /\ \E answer \in {None} \cup {Some(a) : a \in SessionAnswers} :
          Commit(Stamped(
              Settled(InitializeGameOn(
                          Fresh(World, "initialize"), "Hero", "Warrior",
                          [player_name |-> <<"H", "e", "r", "o">>, role |-> <<"W", "a", "r", "r", "i", "o", "r">>],
                          None, answer)),
              World, "initialize", IsNone(answer) \/ TheVal(answer).ok))
    /\ pc' = 1

\* MoveCommand(direction).execute(state, bus)
SessionMove ==
    /\ pc \in 1..MaxSession
    /\ \E direction \in Direction :
          Commit(Stamped(
              Settled(MoveCommandExecute(Rolled(Fresh(World, "move"), <<15>>),
                                         direction)),
              World, "move", TRUE))
    /\ pc' = pc + 1

\* InspectCommand().execute(state, bus)
SessionInspect ==
    /\ pc \in 1..MaxSession
    /\ Commit(Stamped(InspectCommandExecute(Fresh(World, "inspect")),
                      World, "inspect", TRUE))
    /\ pc' = pc + 1

\* WaitCommand().execute(state, bus)
SessionWait ==
    /\ pc \in 1..MaxSession
    /\ Commit(Stamped(WaitCommandExecute(Fresh(World, "wait")),
                      World, "wait", TRUE))
    /\ pc' = pc + 1

\* _open_prompt(), the player typing "look" or nothing
SessionPrompt ==
    /\ pc \in 1..MaxSession
    /\ \E action \in {<<>>, <<"l", "o", "o", "k">>}, answer \in SessionAnswers :
          Commit(Stamped(
              Settled(OpenPromptOn(Fresh(World, "prompt"), action, answer)),
              World, "prompt", answer.ok))
    /\ pc' = pc + 1

NextSession ==
    \/ SessionInitialize
    \/ SessionMove
    \/ SessionInspect
    \/ SessionWait
    \/ SessionPrompt

SpecSession == InitSession /\ [][NextSession]_vars

\* C21: once a call of the provider has failed, at initialization or in an
\* AI action, every later AI action is rejected without a call of the
\* provider.
FailureDisablesPrompt ==
    (last.op = "prompt" /\ last.failed_before) => Len(calls) = last.calls

\* the call of the engine returned a Turn made of a mapping whose narration,
\* when there, is a text, whose actions and available_actions, when there,
\* are lists of texts, and whose done and game_over, when there, are bools
ReturnedOfTyped ==
    /\ EngineCalled
    /\ engine_turn # None
    /\ engine_turn[1].debug_raw.t = "dict"
    /\ \A key \in DOMAIN engine_turn[1].debug_raw.d :
          /\ key = Narration => engine_turn[1].debug_raw.d[key].t = "str"
          /\ key \in {KeyActions, KeyAvailableActions} =>
                IsStrListField(engine_turn[1].debug_raw.d[key])
          /\ key \in {KeyDone, KeyGameOver} => engine_turn[1].debug_raw.d[key].t = "bool"

\* the value of the first of the keys that the mapping has, else the default
FirstOf(d, keys, default) ==
    IF \E i \in 1..Len(keys) : keys[i] \in DOMAIN d
    THEN d[keys[CHOOSE i \in 1..Len(keys) :
                    /\ keys[i] \in DOMAIN d
                    /\ \A j \in 1..(i - 1) : keys[j] \notin DOMAIN d]]
    ELSE default

\* C22: the Turn made of a coerced mapping has the mapping's narration, or
\* the raw reply when there is none; its actions, or its available_actions
\* when there are none, or no actions; its done, or its game_over when there
\* is none, or false.
TurnDefaults ==
    ReturnedOfTyped =>
        /\ engine_turn[1].narration
               = FirstOf(engine_turn[1].debug_raw.d, <<Narration>>, JStr(last.raw)).v
        /\ engine_turn[1].actions
               = Texts(FirstOf(engine_turn[1].debug_raw.d,
                               <<KeyActions, KeyAvailableActions>>, JList(<<>>)))
        /\ engine_turn[1].done
               = FirstOf(engine_turn[1].debug_raw.d, <<KeyDone, KeyGameOver>>,
                         JBool(FALSE)).b

\* the events the last call published
PublishedSince(k) == [i \in 1..(Len(published) - k) |-> published[k + i].event]

\* the events are among those the last call published
AllPublished(events) ==
    \A event \in events :
        \E i \in 1..Len(PublishedSince(last.published)) :
            PublishedSince(last.published)[i] = event

\* the events of a room_updates mapping whose items and enemies, when there,
\* are lists
RoomEvents(ru) ==
    {SpawnItemEvent(Get(ru, "items").l[i].v) :
        i \in {j \in 1..(IF Get(ru, "items").t = "list"
                         THEN Min(Len(Get(ru, "items").l), MaxSpawnItems) ELSE 0) :
                  Get(ru, "items").l[j].t = "str"}}
    \cup {SpawnEnemyEvent(Get(ru, "enemies").l[i].v) :
        i \in {j \in 1..(IF Get(ru, "enemies").t = "list"
                         THEN Min(Len(Get(ru, "enemies").l), MaxSpawnEnemies) ELSE 0) :
                  Get(ru, "enemies").l[j].t = "str"}}
    \cup (IF IsLayout(Get(ru, "layout"))
          THEN {LayoutChangedEvent(LayoutRows(Get(ru, "layout")))} ELSE {})
    \cup (IF Truthy(Get(ru, "new_room")) THEN {NewRoomEvent} ELSE {})

\* the mapping the engine made the Turn of has a mapping at the key
HasUpdates(key) ==
    /\ EngineCalled
    /\ engine_turn # None
    /\ engine_turn[1].debug_raw.t = "dict"
    /\ key \in DOMAIN engine_turn[1].debug_raw.d
    /\ engine_turn[1].debug_raw.d[key].t = "dict"

\* C27: a reply whose mapping holds a player_updates or a room_updates
\* mapping has its PlayerUpdated, SpawnItem, SpawnEnemy, LayoutChanged and
\* NewRoom events published and the fields in the debug snapshot, with a
\* narration key or without one.
UpdatesOnBothPaths ==
    /\ HasUpdates(KeyPlayerUpdates) =>
          /\ AllPublished({PlayerUpdatedOf(
                              Plain(engine_turn[1].debug_raw.d[KeyPlayerUpdates]).d)})
          /\ PublishedSince(last.published)[1].payload.player_updates
                 = Plain(engine_turn[1].debug_raw.d[KeyPlayerUpdates])
    /\ HasUpdates(KeyRoomUpdates) =>
          /\ AllPublished(RoomEvents(
                              Plain(engine_turn[1].debug_raw.d[KeyRoomUpdates]).d))
          /\ PublishedSince(last.published)[1].payload.room_updates
                 = Plain(engine_turn[1].debug_raw.d[KeyRoomUpdates])

(***************************************************************************)
(* SpecThreads: _handle_input is called by the thread of the keyboard      *)
(* listener (_setup_controls) and by the main loop, which polls stdin      *)
(* (_manual_input_handler); no lock is taken anywhere.  A thread that      *)
(* handles an AI action waits for the provider inside engine._call, where  *)
(* the other thread runs.  pc keeps where each thread is; "last" keeps the *)
(* thread that took the last step and the threads that were inside a       *)
(* command of their own at that time.                                      *)
(***************************************************************************)
MaxThreadSteps == 4

Threads == {"main", "listener"}

\* AIActionCommand.execute up to the call of provider.complete
AIActionBegin(w, action) ==
    Completed(
        Remembered(Publish(w, MessageEvent("> " \o Str(action), "bright_yellow")),
                   action),
        "ACTION_PROCESSING_PROMPT", Some(action))

\* AIActionCommand.execute from the provider's answer on, inside the
\* try of _open_prompt
AIActionEnd(w, answer) ==
    CaughtPrompt(
        TranslatedTurn(
            IF ~answer.ok THEN [w EXCEPT !.raised = TRUE]
            ELSE CallCoerced(w, answer.raw, CoerceJson(JStr(answer.raw)).value)))

\* a thread took a step while the threads of inside were in a command
Stepped(w, op, thread, inside) ==
    [w EXCEPT !.last = [op |-> op, thread |-> thread, inside |-> inside]]

\* the other threads that are inside a command
Inside(thread) == {t \in Threads \ {thread} : pc.at[t] # "idle"}

InitThreads ==
    /\ Start(NewGame(GameWidth, GameHeight, ArenaTape))
    /\ pc = [at |-> [t \in Threads |-> "idle"], steps |-> 0, ready |-> FALSE]

\* initialize_game("Hero", "Warrior") with a provider, before run()
ThreadsInitialize ==
    /\ ~pc.ready
    /\ Commit(Settled(InitializeGameOn(
                          World, "Hero", "Warrior",
                          [player_name |-> <<"H", "e", "r", "o">>, role |-> <<"W", "a", "r", "r", "i", "o", "r">>], None,
                          Some(Answer(TRUE, <<"{", "\"", "n", "a", "r", "r", "a", "t", "i", "o", "n", "\"", ":", " ", "\"", "H", "i", "\"", "}">>)))))
    /\ pc' = [pc EXCEPT !.ready = TRUE]

\* _handle_input("space") or _handle_input("i") in a thread
ThreadsCommand(thread) ==
    /\ pc.ready /\ pc.steps < MaxThreadSteps
    /\ pc.at[thread] = "idle"
    /\ \/ Commit(Stepped(WaitCommandExecute(Fresh(World, "wait")),
                         "wait", thread, Inside(thread)))
       \/ Commit(Stepped(InspectCommandExecute(Fresh(World, "inspect")),
                         "inspect", thread, Inside(thread)))
    /\ pc' = [pc EXCEPT !.steps = @ + 1]

\* _handle_input("enter") in a thread: _open_prompt reads "look" and the
\* thread waits for the provider
ThreadsPromptBegin(thread) ==
    /\ pc.ready /\ pc.steps < MaxThreadSteps
    /\ pc.at[thread] = "idle"
    /\ story_system
    /\ Commit(Stepped(AIActionBegin(Fresh(World, "prompt"), <<"l", "o", "o", "k">>),
                      "prompt", thread, Inside(thread)))
    /\ pc' = [pc EXCEPT !.steps = @ + 1, !.at[thread] = "waiting"]

\* the provider answers the thread, or fails
ThreadsPromptEnd(thread) ==
    /\ pc.at[thread] = "waiting"
    /\ \E answer \in SessionAnswers :
          Commit(Stepped(AIActionEnd(Fresh(World, "answer"), answer),
                         "answer", thread, Inside(thread)))
    /\ pc' = [pc EXCEPT !.at[thread] = "idle"]

NextThreads ==
    \/ ThreadsInitialize
    \/ \E thread \in Threads :
          \/ ThreadsCommand(thread)
          \/ ThreadsPromptBegin(thread)
          \/ ThreadsPromptEnd(thread)

SpecThreads == InitThreads /\ [][NextThreads]_vars

\* C23: from the start of a command to its return, the provider call of an
\* AI action and the delivery of its events included, no other command runs.
CommandsExclusive ==
    last.op \in {"wait", "inspect", "prompt", "answer"} => last.inside = {}

(***************************************************************************)
(* SpecLayout: a small dungeon whose game handles LayoutChanged events.    *)
(* The layouts have no row, fewer rows than the grid, or more; their rows  *)
(* are empty, shorter than the grid is wide, or longer.                    *)
(***************************************************************************)
LayoutWidth == 3
LayoutHeight == 2
MaxApplies == 2

LayoutRowSet ==
    { <<>>, <<"█">>, <<"#", ".">>, <<"+", ">", "<">>, <<"x", " ", ".", "█">> }

Layouts ==
    UNION {[1..n -> LayoutRowSet] : n \in 0..(LayoutHeight + 1)}

InitLayout ==
    /\ Start(Subscribe(NewGame(LayoutWidth, LayoutHeight, <<0>>), "on_event"))
    /\ pc = 0

\* bus.publish(LayoutChangedEvent(layout))
LayoutApply ==
    /\ pc < MaxApplies
    /\ \E layout \in Layouts :
          Commit(Publish([Fresh(World, "layout") EXCEPT
                             !.last = [op |-> "layout", layout |-> layout,
                                       grid |-> grid]],
                         LayoutChangedEvent(layout)))
    /\ pc' = pc + 1

NextLayout == LayoutApply

SpecLayout == InitLayout /\ [][NextLayout]_vars

\* the kinds of the glyphs
GlyphKind(ch) ==
    IF ch \in {"█", "#"} THEN "WALL"
    ELSE IF ch = "+" THEN "DOOR"
    ELSE IF ch = ">" THEN "STAIRS_DOWN"
    ELSE IF ch = "<" THEN "STAIRS_UP"
    ELSE "FLOOR"

\* C24: a layout of R rows applied to a grid of height H and width W
\* overwrites the cells (x, y) with y < min(R, H) and x < min(len(row y), W)
\* with the kinds of their glyphs, keeps every other cell, and raises for no
\* layout.
LayoutFrame ==
    last.op = "layout" =>
        /\ ~raised
        /\ DOMAIN grid = 0..(height - 1)
        /\ \A y \in 0..(height - 1) :
              /\ DOMAIN grid[y] = 0..(width - 1)
              /\ \A x \in 0..(width - 1) :
                    IF /\ y < Len(last.layout) /\ y < height
                       /\ x < Len(last.layout[y + 1]) /\ x < width
                    THEN grid[y][x] = GlyphKind(last.layout[y + 1][x + 1])
                    ELSE grid[y][x] = last.grid[y][x]

\* a layout with more rows than the grid, a row longer than the grid is
\* wide and a shorter row was applied to a grid that an earlier layout had
\* written, and a cell of the earlier layout was kept
OversizedLayoutApplied ==
    /\ last.op = "layout"
    /\ Len(last.layout) > height
    /\ Len(last.layout[1]) > width
    /\ Len(last.layout[2]) < width
    /\ \E x \in 0..(width - 1) :
          /\ x >= Len(last.layout[2])
          /\ grid[1][x] = last.grid[1][x]
          /\ grid[1][x] \notin {EMPTY, FLOOR}
    /\ grid[0][0] = FLOOR /\ grid[0][0] # last.grid[0][0]

\* the stat of a player_updates value, or the stat the player had
StatAfter(pu, stat, had) ==
    IF pu.t = "dict" /\ stat \in DOMAIN pu.d /\ pu.d[stat].t = "int"
    THEN pu.d[stat].n
    ELSE had

\* the names a player_updates value supplies for the inventory
InventoryNames(pu) ==
    IF pu.t = "dict" /\ "inventory" \in DOMAIN pu.d /\ pu.d["inventory"].t = "list"
    THEN [i \in 1..Len(SelectSeq(pu.d["inventory"].l, LAMBDA j : j.t = "str")) |->
             SelectSeq(pu.d["inventory"].l, LAMBDA j : j.t = "str")[i].v]
    ELSE <<>>

\* C25: the Turn of an AI action sets each of health, mana, experience and
\* gold to the value its player_updates supplies, 0 included, and leaves it
\* when none is supplied; the inventory names supplied are appended and none
\* is removed; no other stat changes, and a Turn without player_updates
\* publishes no PlayerUpdated event.
PlayerUpdateFrame ==
    [][(pc = "ready" /\ pc' = "acted") =>
          /\ last'.op = "step"
          /\ pstats'.health = StatAfter(last'.turn.player_updates, "health", pstats.health)
          /\ pstats'.mana = StatAfter(last'.turn.player_updates, "mana", pstats.mana)
          /\ pstats'.experience
                 = StatAfter(last'.turn.player_updates, "experience", pstats.experience)
          /\ pstats'.gold = StatAfter(last'.turn.player_updates, "gold", pstats.gold)
          /\ pstats'.inventory = pstats.inventory \o InventoryNames(last'.turn.player_updates)
          /\ pstats'.name = pstats.name /\ pstats'.role = pstats.role
          /\ pstats'.level = pstats.level
          /\ pstats'.max_health = pstats.max_health
          /\ pstats'.max_mana = pstats.max_mana
          /\ last'.turn.player_updates.t # "dict" =>
                \A k \in last'.first..Len(published') :
                    published'[k].event.type # "PlayerUpdated"]_vars

\* a Turn set the health to 0 and three more stats, and a name was added to
\* the two the inventory held
PlayerUpdatedToZero ==
    /\ pc = "acted"
    /\ last.op = "step"
    /\ last.turn.player_updates.t = "dict"
    /\ "health" \in DOMAIN last.turn.player_updates.d
    /\ last.turn.player_updates.d["health"] = JInt(0)
    /\ pstats.health = 0
    /\ pstats.gold = 7
    /\ pstats.inventory = <<"Health Potion", "Rusty Sword", "Rope">>
    /\ \E k \in last.first..Len(published) :
          published[k].event.type = "PlayerUpdated"


(***************************************************************************)
(* SpecSeeds: dungeons generated one after another in one process, each in *)
(* a fresh dungeon after random.seed(seed), with draws of other code in    *)
(* between.  last.seen keeps what each seed and size generated.            *)
(***************************************************************************)
MaxGenerations == 3

Seeds == 0..2

\* the sizes of the dungeons, <<width, height>>: the default, the smallest
\* that holds every room, the size of the demo command and one that cannot
\* hold the doors
DungeonSizes == {<<60, 20>>, <<55, 18>>, <<50, 18>>, <<30, 10>>}

\* what a generation made: the grid, the items and the enemies
Generation(w) ==
    [grid |-> w.grid,
     items |-> [i \in 1..Len(w.items) |->
                   <<w.items[i].x, w.items[i].y, w.items[i].name,
                     w.items[i].description, w.items[i].value>>],
     enemies |-> [i \in 1..Len(w.entities) |->
                     <<w.entities[i].x, w.entities[i].y, w.entities[i].name,
                       w.entities[i].health>>],
     raised |-> w.raised]

\* the generation is entered in last.seen
Seen(w, before, seed) ==
    [w EXCEPT !.last = [op |-> "generate", seed |-> seed, pos |-> before.rng.pos,
                        tape |-> before.rng.tape,
                        seen |-> before.last.seen
                                   \cup {[seed |-> seed, width |-> w.width,
                                          height |-> w.height,
                                          generation |-> Generation(w)]}]]

\* VisualDungeon(width, height) of a new game, random.seed(seed) and
\* generate_dungeon(); the random module is in the state the process left it
Regenerate(w, size, seed) ==
    Seen(GenerateDungeon(SeedRandom([NewGame(size[1], size[2], w.rng.tape)
                                        EXCEPT !.rng = w.rng],
                                    Some(seed))),
         w, seed)

InitSeeds ==
    /\ \E tape \in {<<0>>, ArenaTape} :
          Start([NewGame(GameWidth, GameHeight, tape)
                    EXCEPT !.last = [op |-> "none", seen |-> {}]])
    /\ pc = 0

SeedsGenerate ==
    /\ pc < MaxGenerations
    /\ \E seed \in Seeds, size \in DungeonSizes :
          Commit(Regenerate(World, size, seed))
    /\ pc' = pc + 1

\* another part of the program draws a number
SeedsDraw ==
    /\ pc < MaxGenerations
    /\ last.op # "draw"
    /\ Commit([Advance(World) EXCEPT !.last.op = "draw"])
    /\ pc' = pc

NextSeeds == SeedsGenerate \/ SeedsDraw

SpecSeeds == InitSeeds /\ [][NextSeeds]_vars

PlayerEntities == {i \in 1..Len(entities) : entities[i].symbol = "@"}

\* C28: after initialize_game, dungeon.entities holds exactly one player
\* entity, and it is dungeon.player.
OnePlayerEntity ==
    (last.op = "initialize" /\ ~raised) =>
        /\ Cardinality(PlayerEntities) = 1
        /\ \A i \in PlayerEntities : entities[i].id = player

\* C29: after every command, GameState.turn_count, the game's own turn_count
\* and the sum of the deltas of the TurnAdvanced events published so far are
\* equal.
TurnCountsAgree ==
    last.op # "none" =>
        /\ turn_count = game_turn_count
        /\ game_turn_count = last.advanced


\* C30: after the events of a Turn with both a layout and new_room = true are
\* handled, the grid cells the layout covers have the kinds of the layout's
\* glyphs.
LayoutSurvivesNewRoom ==
    (/\ pc = "acted"
     /\ last.op = "step"
     /\ ~raised
     /\ Truthy(RoomValue(last.turn, "new_room"))
     /\ RoomValue(last.turn, "layout") = Layout5)
    => \A y \in 0..(Len(Layout5.l) - 1) :
          \A x \in 0..(Len(Layout5.l[y + 1].v) - 1) :
              grid[y][x] = GlyphKind(Layout5.l[y + 1].v[x + 1])


\* C31: when initialize_game returns, the game's player has the stats the
\* opening Turn's player_updates gave to the player that initialize_game
\* created: the supplied health, mana, experience and gold, and the
\* inventory with the supplied names added.
OpeningUpdatesKept ==
    (pc = "ready" /\ last.op = "start" /\ ~raised) =>
        /\ pstats.health
               = StatAfter(last.turn.player_updates, "health", ClassHealth("Warrior"))
        /\ pstats.mana
               = StatAfter(last.turn.player_updates, "mana", ClassMana("Warrior"))
        /\ pstats.experience = StatAfter(last.turn.player_updates, "experience", 0)
        /\ pstats.gold
               = StatAfter(last.turn.player_updates, "gold",
                           EnhancedPlayer("", "", 0, 0, 0, 0).gold)
        /\ pstats.inventory
               = EnhancedPlayer("", "", 0, 0, 0, 0).inventory
                     \o InventoryNames(last.turn.player_updates)


(***************************************************************************)
(* enhanced_visual_game.py: what a movement key does.  The numbers that    *)
(* the messages of a fight spell out are left out of their texts.          *)
(***************************************************************************)
\* random.random() < tenths / 10, for the draw to come
Chance(w, tenths) == (Draw(w) % 10) < tenths

\* "gold" in item.name.lower(), for the names items have
HasGold(name) == name \in {"Gold"}

GoldMin == 10
GoldMax == 50

\* the item at place i is picked up: inventory, message and the gold of a
\* golden item
PickedUp(w, i) ==
    LET name == w.items[i].name
        w1 == AddMessage(
                  [w EXCEPT !.items = RemoveAt(@, i),
                            !.pstats.inventory = Append(@, name)],
                  "You picked up: " \o name)
    IN  IF HasGold(name)
        THEN AddMessage(
                 [Advance(w1) EXCEPT !.pstats.gold = @ + RandInt(w1, GoldMin, GoldMax)],
                 "You gained gold!")
        ELSE w1

\* self.dungeon.items.remove(item): the place of the first item equal to it
FirstEqual(its, item) == MinOf({i \in 1..Len(its) : its[i] = item})

\* "Check for items at current position", from the k-th item of the copy on
RECURSIVE PickUpFrom(_, _, _)
PickUpFrom(w, copy, k) ==
    IF k > Len(copy) THEN w
    ELSE IF copy[k].x = w.pstats.x /\ copy[k].y = w.pstats.y
    THEN PickUpFrom(PickedUp(w, FirstEqual(w.items, copy[k])), copy, k + 1)
    ELSE PickUpFrom(w, copy, k + 1)

\* "Check for special floor tiles"; a player beyond the grid is an
\* IndexError
FloorTile(w) ==
    IF w.pstats.x >= w.width \/ w.pstats.y >= w.height
    THEN [w EXCEPT !.raised = TRUE]
    ELSE IF w.grid[w.pstats.y][w.pstats.x] = STAIRS_DOWN
    THEN AddMessage(w, "You found stairs leading deeper!")
    ELSE IF w.grid[w.pstats.y][w.pstats.x] = DOOR
    THEN AddMessage(w, "You pass through a door.")
    ELSE w

\* EnhancedVisualGame._check_movement_events
CheckMovementEvents(w) == FloorTile(PickUpFrom(w, w.items, 1))

\* EnhancedPlayer.gain_experience
GainExperience(p, amount) ==
    IF p.experience + amount >= p.level * 100
    THEN [p EXCEPT !.experience = @ + amount, !.level = @ + 1,
                   !.max_health = @ + 20, !.max_mana = @ + 10,
                   !.health = Min(p.health + 50, p.max_health + 20)]
    ELSE [p EXCEPT !.experience = @ + amount]

LootItems ==
    <<"Health Potion", "Mana Potion", "Silver Coin", "Magic Scroll", "Iron Dagger">>

\* "Enemy defeated": the enemy at place i goes, the player gains experience
\* and gold and, with a chance of 0.4, a loot item
Defeated(w, i) ==
    LET exp_gain == RandInt(w, 20, 40)
        gold_gain == RandInt(Skip(w, 1), 5, 20)
        leveled == w.pstats.experience + exp_gain >= w.pstats.level * 100
        w1 == [Skip(w, 2) EXCEPT
                  !.entities = RemoveEntity(@, [w.entities[i] EXCEPT !.is_alive = FALSE]),
                  !.pstats = [GainExperience(@, exp_gain) EXCEPT !.gold = @ + gold_gain]]
        w2 == AddMessage(IF leveled THEN AddMessage(w1, "Level up!") ELSE w1,
                         w.entities[i].name \o " defeated!")
    IN  IF Chance(w2, 4)
        THEN AddMessage(
                 [Skip(w2, 2) EXCEPT !.pstats.inventory =
                     Append(@, LootItems[RandIndex(Skip(w2, 1), Len(LootItems))])],
                 "You found: "
                     \o LootItems[RandIndex(Skip(w2, 1), Len(LootItems))] \o "!")
        ELSE Advance(w2)

\* _combat_encounter once the damages are drawn
Blows(w, id, enemy_damage, player_damage) ==
    IF w.pstats.health - enemy_damage <= 0
    THEN [AddMessage([w EXCEPT !.pstats.health = 0], "You have been defeated!")
             EXCEPT !.running = FALSE]
    ELSE LET i == IndexOfId(w.entities, id)
             w1 == AddMessage(
                       [w EXCEPT !.pstats.health = @ - enemy_damage,
                                 !.entities[i].health = @ - player_damage],
                       "You deal damage to " \o w.entities[i].name \o "!")
         IN  IF w1.entities[i].health <= 0
             THEN Defeated([w1 EXCEPT !.entities[i].is_alive = FALSE], i)
             ELSE AddMessage(w1, w.entities[i].name \o " has health remaining.")

\* EnhancedVisualGame._combat_encounter with the enemy of identity id
CombatEncounter(w, id) ==
    LET w0 == AddMessage(w, EntityById(w, id).name \o " attacks you!")
        enemy_damage == RandInt(w0, 8, 20)
        player_damage == RandInt(Skip(w0, 1), 12, 25)
        w1 == Skip(w0, 2)
    IN  IF w.pstats.role = "Warrior"
        THEN Blows(w1, id, enemy_damage, player_damage + 5)
        ELSE IF w.pstats.role = "Mage" /\ w.pstats.mana >= 5
        THEN Blows(AddMessage([w1 EXCEPT !.pstats.mana = @ - 5], "You cast a spell!"),
                   id, enemy_damage, player_damage + 8)
        ELSE IF w.pstats.role = "Rogue"
        THEN IF Chance(w1, 3)
             THEN Blows(AddMessage(Advance(w1), "Critical hit!"),
                        id, enemy_damage, player_damage * 2)
             ELSE Blows(Advance(w1), id, enemy_damage, player_damage)
        ELSE Blows(w1, id, enemy_damage, player_damage)

\* Direction.RIGHT if dx > 0 else Direction.LEFT, or the same for dy
Towards(dx, dy) ==
    IF Abs(dx) > Abs(dy)
    THEN (IF dx > 0 THEN "RIGHT" ELSE "LEFT")
    ELSE (IF dy > 0 THEN "DOWN" ELSE "UP")

\* random.choice([Direction.UP, Direction.DOWN, Direction.LEFT, Direction.RIGHT])
AnyDirection(w) == <<"UP", "DOWN", "LEFT", "RIGHT">>[RandIndex(w, 4)]

\* one enemy of _update_enemies: it attacks at distance 1, comes closer
\* within distance 4 with a chance of 0.4 and else strays with a chance of 0.2
EnemyTurn(w, enemy) ==
    LET dx == w.pstats.x - enemy.x
        dy == w.pstats.y - enemy.y
        distance == Abs(dx) + Abs(dy)
    IN  IF distance = 1 THEN CombatEncounter(w, enemy.id)
        ELSE IF distance <= 4 /\ Chance(w, 4)
        THEN MoveEntity(Advance(w), enemy.id, Towards(dx, dy))
        ELSE IF distance <= 4
        THEN IF Chance(Advance(w), 2)
             THEN MoveEntity(Skip(w, 3), enemy.id, AnyDirection(Skip(w, 2)))
             ELSE Skip(w, 2)
        ELSE IF Chance(w, 2)
        THEN MoveEntity(Skip(w, 2), enemy.id, AnyDirection(Advance(w)))
        ELSE Advance(w)

\* EnhancedVisualGame._update_enemies, from the k-th entity of the copy on
RECURSIVE GameUpdateEnemiesFrom(_, _, _)
GameUpdateEnemiesFrom(w, copy, k) ==
    IF k > Len(copy) THEN w
    ELSE LET alive == {i \in 1..Len(w.entities) : w.entities[i].id = copy[k].id}
         IN  IF alive = {} THEN GameUpdateEnemiesFrom(w, copy, k + 1)
             ELSE IF \/ IsPlayer(w, w.entities[CHOOSE i \in alive : TRUE])
                     \/ ~w.entities[CHOOSE i \in alive : TRUE].is_alive
             THEN GameUpdateEnemiesFrom(w, copy, k + 1)
             ELSE GameUpdateEnemiesFrom(
                      EnemyTurn(w, w.entities[CHOOSE i \in alive : TRUE]),
                      copy, k + 1)

\* EnhancedVisualGame._update_enemies
GameUpdateEnemies(w) == GameUpdateEnemiesFrom(w, w.entities, 1)

\* "Update local refs from dungeon after movement"
LocalRefs(w) ==
    [w EXCEPT !.pstats.x = EntityById(w, w.player).x,
              !.pstats.y = EntityById(w, w.player).y]

\* if self.turn_count % 3 == 0: self.player.restore_mana(1)
Regen(w) ==
    IF w.game_turn_count % 3 = 0
    THEN [w EXCEPT !.pstats.mana = Min(@ + 1, w.pstats.max_mana)]
    ELSE w

\* EnhancedVisualGame._handle_movement, for the direction of the key
HandleMovement(w, direction) ==
    Regen(GameUpdateEnemies(CheckMovementEvents(LocalRefs(
        MoveCommandExecute(w, direction)))))


\* the time of the de-duplication window, in milliseconds
KeyWindow == 50

\* self._last_key == key_l and (now - self._last_key_ts) < 0.05
Duplicate(w, key, now) == w.last_key.key = key /\ now - w.last_key.ts < KeyWindow

\* self._last_key, self._last_key_ts = key_l, now
Recorded(w, key, now) == [w EXCEPT !.last_key = [key |-> key, ts |-> now]]

\* _handle_input after the de-duplication, for the keys w, a, s, d, i and
\* space
KeyCommand(w, key) ==
    CASE key = "w" -> HandleMovement(w, "UP")
      [] key = "s" -> HandleMovement(w, "DOWN")
      [] key = "a" -> HandleMovement(w, "LEFT")
      [] key = "d" -> HandleMovement(w, "RIGHT")
      [] key = "i" -> InspectCommandExecute(w)
      [] OTHER -> WaitCommandExecute(w)

\* _handle_input(key) at time now
HandleInput(w, key, now) ==
    IF ~w.running THEN w
    ELSE IF Duplicate(w, key, now) THEN w
    ELSE KeyCommand(Recorded(w, key, now), key)

\* run(): "Update player entity stats" of a rendered frame
RenderFrame(w) ==
    [w EXCEPT !.entities =
        [i \in DOMAIN @ |->
            IF @[i].id = w.player
            THEN [@[i] EXCEPT !.health = w.pstats.health,
                              !.max_health = w.pstats.max_health]
            ELSE @[i]]]

(***************************************************************************)
(* SpecPlay: a game of 60 x 20 is initialized and played with movement     *)
(* keys, each a window after the one before, with rendered frames and with *)
(* AI actions whose Turns spawn an item or an enemy, change the layout or  *)
(* open a new room.  last keeps the items and the inventory a key found.   *)
(***************************************************************************)
MaxPlay == 3

\* the draws of a key or of an AI action
PlayTapes == {<<0>>, <<9>>, <<5, 1>>}

PlayTurns ==
    {Turn("", <<>>, JNone, ru, FALSE) :
        ru \in {JDict([items |-> JList(<<JStr("rope")>>)]),
                JDict([enemies |-> JList(<<JStr("Bat")>>)]),
                JDict([layout |-> ArenaLayout]),
                JDict([new_room |-> JBool(TRUE)])}}

InitPlay ==
    /\ Start(NewGame(GameWidth, GameHeight, ArenaTape))
    /\ pc = 0

\* initialize_game("Hero", role) with a provider
PlayInitialize ==
    /\ pc = 0
    /\ \E role \in {"Warrior", "Rogue"} :
          Commit(Settled(InitializeGame(
                             World, "Hero", role, None,
                             Some(Reply(TRUE, Turn("You wake in the dark.", <<"look">>,
                                                   JNone, JNone, FALSE))))))
    /\ pc' = 1

\* a movement key reaches _handle_input
PlayKey ==
    /\ pc \in 1..MaxPlay
    /\ \E key \in {"w", "a", "s", "d"}, tape \in PlayTapes :
          Commit(Settled(HandleInput(
                     Rolled([Fresh(World, "key") EXCEPT
                                !.last = [op |-> "key", key |-> key,
                                          running |-> running, items |-> items,
                                          inventory |-> pstats.inventory]],
                            tape),
                     key, last_key.ts + KeyWindow)))
    /\ pc' = pc + 1

\* _open_prompt: the typed action goes to AIActionCommand.execute
PlayPrompt ==
    /\ pc \in 1..MaxPlay
    /\ running
    /\ \E turn \in PlayTurns, tape \in {<<0>>, <<9>>} :
          Commit(Settled(OpenPrompt(Rolled(Fresh(World, "prompt"), tape),
                                    "look", Reply(TRUE, turn))))
    /\ pc' = pc + 1

\* the main loop renders a frame
PlayRender ==
    /\ pc \in 1..MaxPlay
    /\ running
    /\ RenderFrame(World) # World
    /\ Commit(RenderFrame(World))
    /\ pc' = pc

NextPlay == PlayInitialize \/ PlayKey \/ PlayPrompt \/ PlayRender

SpecPlay == InitPlay /\ [][NextPlay]_vars

\* how many entries of a sequence of item names are the name
NameCount(names, name) == Cardinality({i \in 1..Len(names) : names[i] = name})

\* the names of the items of a list
ItemNames(its) == [i \in 1..Len(its) |-> its[i].name]

\* C32: when the handling of a movement key removes items from the dungeon,
\* the names of the items removed are appended to the player's inventory in
\* the same step.
PickupReachesInventory ==
    (last.op = "key" /\ ~raised) =>
        \A name \in {last.items[i].name : i \in 1..Len(last.items)} :
            NameCount(ItemNames(last.items), name) - NameCount(ItemNames(items), name)
                <= NameCount(pstats.inventory, name)
                       - NameCount(last.inventory, name)


\* C33: generate_dungeon on a grid of any size, the 50 x 18 of the demo
\* command included, completes without an IndexError.
GenerationCompletes ==
    last.op = "generate" => ~raised


(***************************************************************************)
(* SpecScatter: generate_dungeon on a fresh dungeon of 60 x 20 and once    *)
(* more on the dungeon it made, for every cycle of three draws.  last      *)
(* keeps how many items and entities the call found.                       *)
(***************************************************************************)
ScatterDraws == 0..4

ScatterTapes == [1..3 -> ScatterDraws]

\* generate_dungeon() with the draws of tape
Scattered(w, tape) ==
    GenerateDungeon([Rolled(w, tape) EXCEPT
                        !.raised = FALSE,
                        !.last = [op |-> "generate", items |-> Len(w.items),
                                  entities |-> Len(w.entities)]])

InitScatter ==
    /\ Start(NewGame(GameWidth, GameHeight, <<0>>))
    /\ pc = 0

\* VisualDungeon(60, 20).generate_dungeon()
ScatterGenerate ==
    /\ pc = 0
    /\ \E tape \in ScatterTapes : Commit(Scattered(World, tape))
    /\ pc' = 1

\* self.dungeon.generate_dungeon() on the dungeon of the game
ScatterAgain ==
    /\ pc = 1
    /\ \E tape \in {<<2, 4, 0>>, <<0, 1, 1>>, <<3, 3, 3>>} :
          Commit(Scattered(World, tape))
    /\ pc' = 2

NextScatter == ScatterGenerate \/ ScatterAgain

SpecScatter == InitScatter /\ [][NextScatter]_vars

\* the cell is strictly inside one of the rooms
InsideRoom(x, y) ==
    \E r \in 1..Len(Rooms) :
        /\ Rooms[r][1] < x /\ x < Rooms[r][1] + Rooms[r][3] - 1
        /\ Rooms[r][2] < y /\ y < Rooms[r][2] + Rooms[r][4] - 1

\* C34: on the grid of 60 x 20 every item and every enemy that a call of
\* generate_dungeon placed lies on a floor cell strictly inside a room; the
\* call placed at most 8 items and at most 5 enemies, and it drew for 8 item
\* attempts and 5 enemy attempts and no more: three numbers for an attempt
\* that was skipped, four for an item and six for an enemy.
ScatteredOnFloor ==
    last.op = "generate" =>
        /\ ~raised
        /\ Len(items) - last.items \in 0..ItemAttempts
        /\ Len(entities) - last.entities \in 0..EnemyAttempts
        /\ \A i \in (last.items + 1)..Len(items) :
              /\ InsideRoom(items[i].x, items[i].y)
              /\ grid[items[i].y][items[i].x] = FLOOR
        /\ \A i \in (last.entities + 1)..Len(entities) :
              /\ InsideRoom(entities[i].x, entities[i].y)
              /\ grid[entities[i].y][entities[i].x] = FLOOR
        /\ rng.pos = (4 * (Len(items) - last.items)
                        + 3 * (ItemAttempts - (Len(items) - last.items))
                        + 6 * (Len(entities) - last.entities)
                        + 3 * (EnemyAttempts - (Len(entities) - last.entities)))
                         % Len(rng.tape)

\* a call whose first attempts landed on floor cells and whose later ones
\* on the stairs inside the third room placed some items, fewer than 8, and
\* fewer than 5 enemies
AttemptsSkipped ==
    /\ last.op = "generate"
    /\ grid[5][50] = STAIRS_DOWN
    /\ Len(items) - last.items \in 1..(ItemAttempts - 1)
    /\ Len(entities) - last.entities < EnemyAttempts


(***************************************************************************)
(* SpecCorridor: generate_dungeon on a fresh dungeon of 60 x 20, and then  *)
(* _create_corridor on the dungeon it made, for endpoints inside the grid, *)
(* on its edges and beyond them, in either order.                          *)
(***************************************************************************)
CorridorXs == {-1, 2, 30, 57, 59, 60}

CorridorYs == {-1, 1, 18, 19, 20}

\* VisualDungeon._create_corridor(x1, y1, x2, y2), c being the arguments
CreateCorridor(w, c) ==
    [w EXCEPT !.grid =
        [y \in 0..(w.height - 1) |->
            [x \in 0..(w.width - 1) |->
                IF InCorridor(w, c, x, y) THEN FLOOR ELSE w.grid[y][x]]]]

InitCorridor ==
    /\ Start(NewGame(GameWidth, GameHeight, <<0>>))
    /\ pc = 0

\* VisualDungeon(60, 20).generate_dungeon()
CorridorGenerate ==
    /\ pc = 0
    /\ \E tape \in {<<0>>, <<2, 4, 0>>} : Commit(Scattered(World, tape))
    /\ pc' = 1

\* self._create_corridor(x1, y1, x2, y2)
CorridorCreate ==
    /\ pc = 1
    /\ \E x1 \in CorridorXs, y1 \in CorridorYs, x2 \in CorridorXs, y2 \in CorridorYs :
          Commit(CreateCorridor(
                     [World EXCEPT !.last = [op |-> "corridor",
                                             c |-> <<x1, y1, x2, y2>>,
                                             grid |-> grid]],
                     <<x1, y1, x2, y2>>))
    /\ pc' = 2

NextCorridor == CorridorGenerate \/ CorridorCreate

SpecCorridor == InitCorridor /\ [][NextCorridor]_vars

\* the cells next to a cell in the four directions that are in the grid
\* and are no wall
Steps(cell) ==
    {n \in {<<cell[1] + 1, cell[2]>>, <<cell[1] - 1, cell[2]>>,
            <<cell[1], cell[2] + 1>>, <<cell[1], cell[2] - 1>>} :
        /\ 0 <= n[1] /\ n[1] < width /\ 0 <= n[2] /\ n[2] < height
        /\ grid[n[2]][n[1]] # WALL}

\* the cells that moves in the four directions over cells that are no wall
\* reach from the cells of seen, frontier being the cells found last
RECURSIVE Flood(_, _)
Flood(frontier, seen) ==
    IF frontier = {} THEN seen
    ELSE Flood((UNION {Steps(cell) : cell \in frontier}) \ seen,
               seen \cup UNION {Steps(cell) : cell \in frontier})

\* every floor cell of every room is among the cells
RoomFloorsIn(cells) ==
    \A r \in 1..Len(Rooms) :
        \A x \in Rooms[r][1]..(Rooms[r][1] + Rooms[r][3] - 1) :
            \A y \in Rooms[r][2]..(Rooms[r][2] + Rooms[r][4] - 1) :
                (x < width /\ y < height /\ grid[y][x] = FLOOR)
                    => <<x, y>> \in cells

Lower2(a, b) == IF a < b THEN a ELSE b

Upper2(a, b) == IF a < b THEN b ELSE a

\* C35: after generate_dungeon on the grid of 60 x 20 every floor cell of
\* every room is reached from the start cell (10, 5) by moves in the four
\* directions over cells that are no wall; and a corridor leaves no wall on
\* the cells of its horizontal run in the start row and of its vertical run
\* in the end column that are in the grid, whichever endpoint is the larger.
RoomsConnected ==
    /\ last.op = "generate" =>
          /\ grid[StartY][StartX] # WALL
          /\ RoomFloorsIn(Flood({<<StartX, StartY>>}, {<<StartX, StartY>>}))
    /\ last.op = "corridor" =>
          /\ \A x \in Lower2(last.c[1], last.c[3])..Upper2(last.c[1], last.c[3]) :
                (0 <= x /\ x < width /\ 0 <= last.c[2] /\ last.c[2] < height)
                    => grid[last.c[2]][x] # WALL
          /\ \A y \in Lower2(last.c[2], last.c[4])..Upper2(last.c[2], last.c[4]) :
                (0 <= y /\ y < height /\ 0 <= last.c[3] /\ last.c[3] < width)
                    => grid[y][last.c[3]] # WALL

\* a corridor from a larger x to a smaller one and from a larger y to a
\* smaller one turned walls of both runs into floor
CorridorBackwards ==
    /\ last.op = "corridor"
    /\ last.c[1] > last.c[3]
    /\ last.c[2] > last.c[4]
    /\ last.c[3] >= 0
    /\ last.c[2] < height
    /\ \E x \in last.c[3]..(last.c[1] - 1) :
          x < width /\ last.grid[last.c[2]][x] = WALL /\ grid[last.c[2]][x] = FLOOR
    /\ \E y \in (last.c[4] + 1)..last.c[2] :
          y >= 0 /\ last.grid[y][last.c[3]] = WALL /\ grid[y][last.c[3]] = FLOOR


\* C36: after initialization every entity, every item and the player have
\* coordinates inside the grid, and no operation ends with an IndexError of
\* a grid access.
AllInsideGrid ==
    pc >= 1 =>
        /\ ~raised
        /\ 0 <= pstats.x /\ pstats.x < width /\ 0 <= pstats.y /\ pstats.y < height
        /\ \A i \in 1..Len(entities) :
              /\ 0 <= entities[i].x /\ entities[i].x < width
              /\ 0 <= entities[i].y /\ entities[i].y < height
        /\ \A i \in 1..Len(items) :
              /\ 0 <= items[i].x /\ items[i].x < width
              /\ 0 <= items[i].y /\ items[i].y < height

\* C37: after initialization no entity and no item is on a wall cell.
NoneOnWall ==
    pc >= 1 =>
        /\ \A i \in 1..Len(entities) : grid[entities[i].y][entities[i].x] # WALL
        /\ \A i \in 1..Len(items) : grid[items[i].y][items[i].x] # WALL


\* an enemy spawned on the top row of a changed layout tried to leave the
\* grid and move_entity refused the move
EdgeMoveRefused ==
    /\ pc >= 1
    /\ last.op = "key"
    /\ \E k \in 1..Len(moves) :
          /\ moves[k].direction = "UP"
          /\ ~moves[k].ret
          /\ moves[k].id # player
          /\ EntityById([entities |-> moves[k].before], moves[k].id).y = 0


(***************************************************************************)
(* SpecKeys: one keypress reaches _handle_input twice, from the thread of  *)
(* the keyboard listener and from the main loop's stdin poll.  A thread    *)
(* tests _last_key, then writes it, then runs the command; the other       *)
(* thread can run between any two of these.  pc keeps the clock, where     *)
(* each thread is, the time it read and how many commands were run.        *)
(***************************************************************************)
ClockStep == 25
MaxClock == 100

InitKeys ==
    /\ Start(NewGame(GameWidth, GameHeight, ArenaTape))
    /\ pc = [ready |-> FALSE, key |-> "", clock |-> 0,
             at |-> [t \in Threads |-> "idle"],
             now |-> [t \in Threads |-> 0], runs |-> 0]

\* initialize_game("Hero", "Warrior") before run(), and the key that is
\* pressed
KeysInitialize ==
    /\ ~pc.ready
    /\ Commit(Settled(InitializeGame(World, "Hero", "Warrior", None, None)))
    /\ \E key \in {"w", "i", "space"} :
          pc' = [pc EXCEPT !.ready = TRUE, !.key = key]

\* time passes
KeysTick ==
    /\ pc.ready /\ pc.clock < MaxClock
    /\ pc' = [pc EXCEPT !.clock = @ + ClockStep]
    /\ UNCHANGED <<subs, published, delivered, raised, messages,
                   game_turn_count, debug_info, pstats, turn_count, width,
                   height, grid, entities, items, player, rng, ret,
                   story_system, moves, fallen, last, memory, history, calls,
                   engine_turn, config, running, last_key>>

\* the thread enters _handle_input, reads the clock and tests _last_key
KeysTest(thread) ==
    /\ pc.ready /\ pc.at[thread] = "idle"
    /\ Commit([World EXCEPT !.last = [op |-> "test", thread |-> thread]])
    /\ pc' = [pc EXCEPT
                 !.now[thread] = pc.clock,
                 !.at[thread] = IF ~running \/ Duplicate(World, pc.key, pc.clock)
                                THEN "returned" ELSE "passed"]

\* the thread writes _last_key and _last_key_ts
KeysRecord(thread) ==
    /\ pc.at[thread] = "passed"
    /\ Commit(Recorded([World EXCEPT !.last = [op |-> "record", thread |-> thread]],
                       pc.key, pc.now[thread]))
    /\ pc' = [pc EXCEPT !.at[thread] = "recorded"]

\* the thread runs the command of the key
KeysRun(thread) ==
    /\ pc.at[thread] = "recorded"
    /\ Commit(Settled(KeyCommand(
                          [Fresh(World, "run") EXCEPT
                              !.last = [op |-> "run", thread |-> thread]],
                          pc.key)))
    /\ pc' = [pc EXCEPT !.at[thread] = "returned", !.runs = @ + 1]

NextKeys ==
    \/ KeysInitialize
    \/ KeysTick
    \/ \E thread \in Threads :
          \/ KeysTest(thread)
          \/ KeysRecord(thread)
          \/ KeysRun(thread)

SpecKeys == InitKeys /\ [][NextKeys]_vars

\* C38: a keypress that both threads deliver to _handle_input within the
\* de-duplication window runs at most one command.
OneRunPerKeypress ==
    (/\ \A t \in Threads : pc.at[t] # "idle"
     /\ Abs(pc.now["main"] - pc.now["listener"]) < KeyWindow)
    => pc.runs <= 1

====
